---- MODULE Spec2Model ----
(***************************************************************************)
(* benday: braille canvas codec and transform engine.                      *)
(*                                                                         *)
(* Spec         the preview model: Update, its write-operations and the    *)
(*              poll that tea.Every schedules, over one canvas file.       *)
(* SpecMeasure  getCanvasMeasurement as a pure function of the raster      *)
(*              header and the padding spec.                               *)
(* SpecToggle   togglePaddingState called twice on one canvas.             *)
(***************************************************************************)
EXTENDS Integers, Sequences, FiniteSets, TLC

(* ---------------------------------------------------------------------- *)
(* Bounds                                                                  *)
(* ---------------------------------------------------------------------- *)
MaxRasterW == 21
MaxRasterH == 25
MaxPadding == 2

(* ---------------------------------------------------------------------- *)
(* Program constants                                                       *)
(* ---------------------------------------------------------------------- *)
BRAILLE_WIDTH == 2
BRAILLE_HEIGHT == 4

\* time.Second, the unit in which the model counts time
OneSecond == 1

VARIABLES
    mArgs,          \* SpecMeasure, SpecName: arguments of the function under test
    mRes,           \* SpecMeasure, SpecName: its result, "pending" before the call
    file,           \* the canvas file on disk
    modAge,         \* time since the file's modification time, capped at OneSecond
    fileName,       \* the padding spec written in the file name; SpecNamed: the name
    active,         \* the tea.Model the program currently runs
    quit,           \* tea.Quit has been issued
    preview,        \* the fields of previewArtModel
    writeSignal,    \* the buffered channel of capacity 1
    upd,            \* the event loop's Update call and the write-operation inside it
    tick,           \* the poll command's goroutine
    msgs,           \* updatePreviewMsg values sent to the event loop, not yet handled
    tOrig,          \* SpecToggle, SpecResize, SpecClean: the file before the first call
    tCount,         \* SpecToggle: successful toggles so far
    hist,           \* SpecResize, SpecClean: the calls made so far and what each returned
    form,           \* SpecCreate: the fields of createCanvasModel
    imp,            \* SpecImport: the text file, the imported grid and what is decoded back
    exp             \* SpecExport: the export mode's fields and the text files on disk

measureVars == <<mArgs, mRes>>
fileVars == <<file, modAge, fileName>>
modelVars == <<active, quit, preview, writeSignal, upd, tick, msgs>>
toggleVars == <<tOrig, tCount, hist>>
createVars == <<form>>
importVars == <<imp, exp>>
vars == <<mArgs, mRes, file, modAge, fileName, active, quit, preview, writeSignal, upd, tick,
          msgs, tOrig, tCount, hist, form, imp, exp>>

(* ---------------------------------------------------------------------- *)
(* getCanvasMeasurement, from the decoded header on (lines 469-506)        *)
(* ---------------------------------------------------------------------- *)
InvalidImgDimensionE(measure, mustBeDivisibleBy, errorOnX, isUnpadded) ==
    [err |-> "InvalidImgDimensionE", measure |-> measure,
     mustBeDivisibleBy |-> mustBeDivisibleBy, errorOnX |-> errorOnX,
     isUnpadded |-> isUnpadded]

canvasMeasure(imageWidth, imageHeight, isUnpadded, charsX, charsY, brailleW, brailleH) ==
    [err |-> "nil", imageWidth |-> imageWidth, imageHeight |-> imageHeight,
     isUnpadded |-> isUnpadded, charsX |-> charsX, charsY |-> charsY,
     brailleW |-> brailleW, brailleH |-> brailleH]

\* mutant: the padded layout is never accepted
isPaddedFit_never(width, height, paddingX, paddingY) == FALSE

isPaddedFit(width, height, paddingX, paddingY) ==
    /\ width % (BRAILLE_WIDTH + paddingX) = 0
    /\ height % (BRAILLE_HEIGHT + paddingY) = 0

\* mutant: the unpadded layout is tried before the padded one
getCanvasMeasurement_unpaddedFirst(width, height, paddingX, paddingY) ==
    LET unpadded == (width - 1) % BRAILLE_WIDTH = 0 /\ (height - 1) % BRAILLE_HEIGHT = 0
        brailleW == IF unpadded THEN BRAILLE_WIDTH ELSE BRAILLE_WIDTH + paddingX
        brailleH == IF unpadded THEN BRAILLE_HEIGHT ELSE BRAILLE_HEIGHT + paddingY
        imageTestWidth == IF unpadded THEN width - 1 ELSE width
        imageTestHeight == IF unpadded THEN height - 1 ELSE height
        charsX == imageTestWidth \div brailleW
        charsY == imageTestHeight \div brailleH
    IN  IF charsX * brailleW # imageTestWidth
        THEN InvalidImgDimensionE(width, brailleW, TRUE, unpadded)
        ELSE IF charsY * brailleH # imageTestHeight
        THEN InvalidImgDimensionE(height, brailleW, TRUE, unpadded)
        ELSE canvasMeasure(width, height, unpadded, charsX, charsY, brailleW, brailleH)

\* mutant: the two divisibility checks after the division are missing
getCanvasMeasurement_noCheck(width, height, paddingX, paddingY) ==
    LET padded == isPaddedFit(width, height, paddingX, paddingY)
        brailleW == IF padded THEN BRAILLE_WIDTH + paddingX ELSE BRAILLE_WIDTH
        brailleH == IF padded THEN BRAILLE_HEIGHT + paddingY ELSE BRAILLE_HEIGHT
        imageTestWidth == IF padded THEN width ELSE width - 1
        imageTestHeight == IF padded THEN height ELSE height - 1
    IN  canvasMeasure(width, height, ~padded, imageTestWidth \div brailleW,
                      imageTestHeight \div brailleH, brailleW, brailleH)

getCanvasMeasurement(width, height, paddingX, paddingY) ==
    LET padded == isPaddedFit(width, height, paddingX, paddingY)
        brailleW == IF padded THEN BRAILLE_WIDTH + paddingX ELSE BRAILLE_WIDTH
        brailleH == IF padded THEN BRAILLE_HEIGHT + paddingY ELSE BRAILLE_HEIGHT
        imageTestWidth == IF padded THEN width ELSE width - 1
        imageTestHeight == IF padded THEN height ELSE height - 1
        charsX == imageTestWidth \div brailleW
        charsY == imageTestHeight \div brailleH
    IN  IF charsX * brailleW # imageTestWidth
        THEN InvalidImgDimensionE(width, brailleW, TRUE, ~padded)
        ELSE IF charsY * brailleH # imageTestHeight
        THEN InvalidImgDimensionE(height, brailleW, TRUE, ~padded)
        ELSE canvasMeasure(width, height, ~padded, charsX, charsY, brailleW, brailleH)

(* ---------------------------------------------------------------------- *)
(* Rasters: [w, h, px], px a function from <<x, y>> to an NRGBA sample     *)
(* <<r, g, b, a>> with 8-bit channels.                                     *)
(* ---------------------------------------------------------------------- *)
colorTransparentPx == <<0, 0, 0, 0>>
colorWhite == <<255, 255, 255, 255>>
colorGray == <<204, 204, 204, 255>>
colorBlack == <<51, 51, 51, 255>>

Max2(a, b) == IF a >= b THEN a ELSE b
Min2(a, b) == IF a <= b THEN a ELSE b

Coords(w, h) == (0..(w - 1)) \X (0..(h - 1))

\* image.NewNRGBA: every sample is the zero value
NewNRGBA(w, h) == [w |-> w, h |-> h, px |-> [p \in Coords(w, h) |-> colorTransparentPx]]

\* At outside the bounds returns the zero colour
At(img, x, y) ==
    IF x >= 0 /\ x < img.w /\ y >= 0 /\ y < img.h THEN img.px[<<x, y>>] ELSE colorTransparentPx

(* ---------------------------------------------------------------------- *)
(* shadeType (lines 331-369)                                               *)
(* ---------------------------------------------------------------------- *)
\* mutant: the arithmetic is done on the 8-bit channels, without the
\* conversion to uint32 of line 343
shadeType_uint8(c) ==
    LET r == c[1]
        g == c[2]
        b == c[3]
        a == c[4]
        deviation == (2 * (Max2(r, Max2(g, b)) - Min2(r, Min2(g, b)))) % 256
        sumOfColors == (r + g + b) % 256
    IN  IF (3 * a) % 256 < 255 THEN "colorTransparent"
        ELSE IF (16 * deviation) % 256 > (3 * 255) % 256 THEN "colorNonGrayscale"
        ELSE IF sumOfColors < (2 * a) % 256 THEN "colorShaded"
        ELSE "colorNonShaded"

shadeType(c) ==
    LET r == c[1]
        g == c[2]
        b == c[3]
        a == c[4]
        deviation == 2 * (Max2(r, Max2(g, b)) - Min2(r, Min2(g, b)))
        sumOfColors == r + g + b
    IN  IF 3 * a < 255 THEN "colorTransparent"
        ELSE IF 16 * deviation > 3 * 255 THEN "colorNonGrayscale"
        ELSE IF sumOfColors < 2 * a THEN "colorShaded"
        ELSE "colorNonShaded"

(* ---------------------------------------------------------------------- *)
(* Default pattern and gap painting. newCanvasImage and drawPadding are    *)
(* called by the transform operations; their bodies follow section 4.4 of  *)
(* the specification and the loop of createCanvasModel.createFile.         *)
(* ---------------------------------------------------------------------- *)
newCanvasImage(width, height, paddingX, paddingY, unpadded) ==
    LET cellW == IF unpadded THEN BRAILLE_WIDTH ELSE BRAILLE_WIDTH + paddingX
        cellH == IF unpadded THEN BRAILLE_HEIGHT ELSE BRAILLE_HEIGHT + paddingY
        effW == IF unpadded THEN width - 1 ELSE width
        effH == IF unpadded THEN height - 1 ELSE height
    IN  [w |-> width, h |-> height,
         px |-> [p \in Coords(width, height) |->
                   IF /\ p[1] < effW /\ p[2] < effH
                      /\ p[1] % cellW < BRAILLE_WIDTH /\ p[2] % cellH < BRAILLE_HEIGHT
                   THEN IF ((p[1] \div cellW) + (p[2] \div cellH)) % 2 = 0
                        THEN colorWhite ELSE colorGray
                   ELSE colorTransparentPx]]

drawPadding(img, paddingX, paddingY) ==
    LET cellW == BRAILLE_WIDTH + paddingX
        cellH == BRAILLE_HEIGHT + paddingY
    IN  [img EXCEPT !.px = [p \in Coords(img.w, img.h) |->
                   IF p[1] % cellW < BRAILLE_WIDTH /\ p[2] % cellH < BRAILLE_HEIGHT
                   THEN img.px[p] ELSE colorTransparentPx]]

(* ---------------------------------------------------------------------- *)
(* Files: [kind, w, h, px].                                                *)
(*   "missing"  no file at the path                                        *)
(*   "png"      a decodable raster                                         *)
(*   "badbody"  a valid PNG header (w, h) followed by undecodable data     *)
(*   "empty"    zero bytes, as os.Create leaves it                         *)
(* ---------------------------------------------------------------------- *)
NoPx == [p \in {} |-> colorTransparentPx]
MissingFile == [kind |-> "missing", w |-> 0, h |-> 0, px |-> NoPx]
EmptyFile == [kind |-> "empty", w |-> 0, h |-> 0, px |-> NoPx]
PngFile(img) == [kind |-> "png", w |-> img.w, h |-> img.h, px |-> img.px]
BadBodyFile(w, h) == [kind |-> "badbody", w |-> w, h |-> h, px |-> NoPx]
ImageOf(f) == [w |-> f.w, h |-> f.h, px |-> f.px]

decodeError(text) == [err |-> "decodeError", text |-> text]
silentError == [err |-> "silentError"]
encodeError == [err |-> "encodeError"]
createError == [err |-> "createError"]
nil == [err |-> "nil"]

\* getCanvasMeasurement on a file (lines 456-507): os.Open, png.DecodeConfig,
\* then the measurement of the header's size
measureFile(f, paddingX, paddingY) ==
    IF f.kind = "missing" THEN decodeError("FileDoesNotExistError")
    ELSE IF f.kind = "empty" THEN decodeError("png")
    ELSE getCanvasMeasurement(f.w, f.h, paddingX, paddingY)

(* ---------------------------------------------------------------------- *)
(* The in-memory part of the three write-operations: from the decoded old  *)
(* raster and its measurement m to the replacement raster.                 *)
(* ---------------------------------------------------------------------- *)
\* mutant: the source pixel is looked up with the cell size of the new layout
toggleImage_afterCoords(oldImage, m, paddingX, paddingY) ==
    LET afterW == IF m.isUnpadded THEN m.brailleW + paddingX ELSE m.brailleW - paddingX
        afterH == IF m.isUnpadded THEN m.brailleH + paddingY ELSE m.brailleH - paddingY
        newW == m.charsX * afterW + (IF m.isUnpadded THEN 0 ELSE 1)
        newH == m.charsY * afterH + (IF m.isUnpadded THEN 0 ELSE 1)
        copied == [w |-> newW, h |-> newH,
                   px |-> [p \in Coords(newW, newH) |->
                       IF /\ p[1] \div afterW < m.charsX /\ p[1] % afterW < BRAILLE_WIDTH
                          /\ p[2] \div afterH < m.charsY /\ p[2] % afterH < BRAILLE_HEIGHT
                       THEN At(oldImage, p[1], p[2])
                       ELSE colorTransparentPx]]
    IN  IF m.isUnpadded THEN drawPadding(copied, paddingX, paddingY) ELSE copied

\* togglePaddingState, lines 269-320
toggleImage(oldImage, m, paddingX, paddingY) ==
    LET beforeW == m.brailleW
        beforeH == m.brailleH
        afterW == IF m.isUnpadded THEN beforeW + paddingX ELSE beforeW - paddingX
        afterH == IF m.isUnpadded THEN beforeH + paddingY ELSE beforeH - paddingY
        newW == m.charsX * afterW + (IF m.isUnpadded THEN 0 ELSE 1)
        newH == m.charsY * afterH + (IF m.isUnpadded THEN 0 ELSE 1)
        copied == [w |-> newW, h |-> newH,
                   px |-> [p \in Coords(newW, newH) |->
                       LET charX == p[1] \div afterW
                           charY == p[2] \div afterH
                           brailleXOff == p[1] % afterW
                           brailleYOff == p[2] % afterH
                       IN  IF /\ charX < m.charsX /\ brailleXOff < BRAILLE_WIDTH
                              /\ charY < m.charsY /\ brailleYOff < BRAILLE_HEIGHT
                           THEN At(oldImage, charX * beforeW + brailleXOff,
                                            charY * beforeH + brailleYOff)
                           ELSE colorTransparentPx]]
    IN  IF m.isUnpadded THEN drawPadding(copied, paddingX, paddingY) ELSE copied

\* mutant: the shade test is negated, the samples that are not shaded are
\* painted black and the shaded ones take the default pattern
cleanImage_negated(img, m, paddingX, paddingY, removeNonGrayscale) ==
    LET defaultCanvasImg == newCanvasImage(m.imageWidth, m.imageHeight,
                                           paddingX, paddingY, m.isUnpadded)
        inBlock(p) == p[1] % m.brailleW < BRAILLE_WIDTH /\ p[2] % m.brailleH < BRAILLE_HEIGHT
        over(src, dst) == IF src[4] = 255 THEN src ELSE dst
        painted == [w |-> m.imageWidth, h |-> m.imageHeight,
                    px |-> [p \in Coords(m.imageWidth, m.imageHeight) |->
                        IF inBlock(p) /\ shadeType(At(img, p[1], p[2])) # "colorShaded"
                        THEN colorBlack
                        ELSE IF inBlock(p)
                        THEN over(defaultCanvasImg.px[p], At(img, p[1], p[2]))
                        ELSE At(img, p[1], p[2])]]
    IN  IF m.isUnpadded
        THEN [painted EXCEPT !.px = [p \in Coords(painted.w, painted.h) |->
                  IF p[1] = m.imageWidth - 1 \/ p[2] = m.imageHeight - 1
                  THEN colorTransparentPx ELSE painted.px[p]]]
        ELSE drawPadding(painted, paddingX, paddingY)

\* mutant: the default pattern is drawn over a sample only when comment
\* removal is requested
cleanImage_keepUnshaded(img, m, paddingX, paddingY, removeNonGrayscale) ==
    LET defaultCanvasImg == newCanvasImage(m.imageWidth, m.imageHeight,
                                           paddingX, paddingY, m.isUnpadded)
        inBlock(p) == p[1] % m.brailleW < BRAILLE_WIDTH /\ p[2] % m.brailleH < BRAILLE_HEIGHT
        masked(p) == /\ inBlock(p)
                     /\ shadeType(At(img, p[1], p[2])) # "colorShaded"
                     /\ removeNonGrayscale
        over(src, dst) == IF src[4] = 255 THEN src ELSE dst
        painted == [w |-> m.imageWidth, h |-> m.imageHeight,
                    px |-> [p \in Coords(m.imageWidth, m.imageHeight) |->
                        IF inBlock(p) /\ shadeType(At(img, p[1], p[2])) = "colorShaded"
                        THEN colorBlack
                        ELSE IF masked(p)
                        THEN over(defaultCanvasImg.px[p], At(img, p[1], p[2]))
                        ELSE At(img, p[1], p[2])]]
    IN  IF m.isUnpadded
        THEN [painted EXCEPT !.px = [p \in Coords(painted.w, painted.h) |->
                  IF p[1] = m.imageWidth - 1 \/ p[2] = m.imageHeight - 1
                  THEN colorTransparentPx ELSE painted.px[p]]]
        ELSE drawPadding(painted, paddingX, paddingY)

\* mutant: the comment colours are reset whatever the flag says
cleanImage_alwaysRemove(img, m, paddingX, paddingY, removeNonGrayscale) ==
    LET defaultCanvasImg == newCanvasImage(m.imageWidth, m.imageHeight,
                                           paddingX, paddingY, m.isUnpadded)
        inBlock(p) == p[1] % m.brailleW < BRAILLE_WIDTH /\ p[2] % m.brailleH < BRAILLE_HEIGHT
        masked(p) == inBlock(p) /\ shadeType(At(img, p[1], p[2])) # "colorShaded"
        over(src, dst) == IF src[4] = 255 THEN src ELSE dst
        painted == [w |-> m.imageWidth, h |-> m.imageHeight,
                    px |-> [p \in Coords(m.imageWidth, m.imageHeight) |->
                        IF inBlock(p) /\ shadeType(At(img, p[1], p[2])) = "colorShaded"
                        THEN colorBlack
                        ELSE IF masked(p)
                        THEN over(defaultCanvasImg.px[p], At(img, p[1], p[2]))
                        ELSE At(img, p[1], p[2])]]
    IN  IF m.isUnpadded
        THEN [painted EXCEPT !.px = [p \in Coords(painted.w, painted.h) |->
                  IF p[1] = m.imageWidth - 1 \/ p[2] = m.imageHeight - 1
                  THEN colorTransparentPx ELSE painted.px[p]]]
        ELSE drawPadding(painted, paddingX, paddingY)

\* mutant: the continue after a shaded sample is painted is missing, so the
\* sample is marked in the mask as well
cleanImage_noContinue(img, m, paddingX, paddingY, removeNonGrayscale) ==
    LET defaultCanvasImg == newCanvasImage(m.imageWidth, m.imageHeight,
                                           paddingX, paddingY, m.isUnpadded)
        inBlock(p) == p[1] % m.brailleW < BRAILLE_WIDTH /\ p[2] % m.brailleH < BRAILLE_HEIGHT
        masked(p) == /\ inBlock(p)
                     /\ \/ removeNonGrayscale
                        \/ shadeType(At(img, p[1], p[2])) # "colorNonGrayscale"
        over(src, dst) == IF src[4] = 255 THEN src ELSE dst
        inked(p) == IF inBlock(p) /\ shadeType(At(img, p[1], p[2])) = "colorShaded"
                    THEN colorBlack ELSE At(img, p[1], p[2])
        painted == [w |-> m.imageWidth, h |-> m.imageHeight,
                    px |-> [p \in Coords(m.imageWidth, m.imageHeight) |->
                        IF masked(p) THEN over(defaultCanvasImg.px[p], inked(p))
                        ELSE inked(p)]]
    IN  IF m.isUnpadded
        THEN [painted EXCEPT !.px = [p \in Coords(painted.w, painted.h) |->
                  IF p[1] = m.imageWidth - 1 \/ p[2] = m.imageHeight - 1
                  THEN colorTransparentPx ELSE painted.px[p]]]
        ELSE drawPadding(painted, paddingX, paddingY)

\* cleanCanvas, lines 398-445
cleanImage(img, m, paddingX, paddingY, removeNonGrayscale) ==
    LET defaultCanvasImg == newCanvasImage(m.imageWidth, m.imageHeight,
                                           paddingX, paddingY, m.isUnpadded)
        inBlock(p) == p[1] % m.brailleW < BRAILLE_WIDTH /\ p[2] % m.brailleH < BRAILLE_HEIGHT
        masked(p) == /\ inBlock(p)
                     /\ shadeType(At(img, p[1], p[2])) # "colorShaded"
                     /\ \/ removeNonGrayscale
                        \/ shadeType(At(img, p[1], p[2])) # "colorNonGrayscale"
        \* draw.Over of a default sample: opaque replaces, transparent keeps
        over(src, dst) == IF src[4] = 255 THEN src ELSE dst
        painted == [w |-> m.imageWidth, h |-> m.imageHeight,
                    px |-> [p \in Coords(m.imageWidth, m.imageHeight) |->
                        IF inBlock(p) /\ shadeType(At(img, p[1], p[2])) = "colorShaded"
                        THEN colorBlack
                        ELSE IF masked(p)
                        THEN over(defaultCanvasImg.px[p], At(img, p[1], p[2]))
                        ELSE At(img, p[1], p[2])]]
    IN  IF m.isUnpadded
        THEN [painted EXCEPT !.px = [p \in Coords(painted.w, painted.h) |->
                  IF p[1] = m.imageWidth - 1 \/ p[2] = m.imageHeight - 1
                  THEN colorTransparentPx ELSE painted.px[p]]]
        ELSE drawPadding(painted, paddingX, paddingY)

\* mutant: the whole old raster is drawn over the new one, not only the
\* rectangle of the cells both grids have
resizeImage_wholeOld(oldImage, m, paddingX, paddingY, resizeX, resizeY) ==
    LET newCharsX == m.charsX + resizeX
        newCharsY == m.charsY + resizeY
        newImageWidth == newCharsX * m.brailleW + (IF m.isUnpadded THEN 1 ELSE 0)
        newImageHeight == newCharsY * m.brailleH + (IF m.isUnpadded THEN 1 ELSE 0)
        base == IF resizeX > 0 \/ resizeY > 0
                THEN newCanvasImage(newImageWidth, newImageHeight,
                                    paddingX, paddingY, m.isUnpadded)
                ELSE NewNRGBA(newImageWidth, newImageHeight)
    IN  [base EXCEPT !.px = [p \in Coords(newImageWidth, newImageHeight) |->
              IF p[1] < oldImage.w /\ p[2] < oldImage.h THEN oldImage.px[p] ELSE base.px[p]]]

\* resizeCanvas, lines 798-821
resizeImage(oldImage, m, paddingX, paddingY, resizeX, resizeY) ==
    LET newCharsX == m.charsX + resizeX
        newCharsY == m.charsY + resizeY
        newImageWidth == newCharsX * m.brailleW + (IF m.isUnpadded THEN 1 ELSE 0)
        newImageHeight == newCharsY * m.brailleH + (IF m.isUnpadded THEN 1 ELSE 0)
        base == IF resizeX > 0 \/ resizeY > 0
                THEN newCanvasImage(newImageWidth, newImageHeight,
                                    paddingX, paddingY, m.isUnpadded)
                ELSE NewNRGBA(newImageWidth, newImageHeight)
        copyW == Min2(Min2(m.charsX, newCharsX) * m.brailleW, oldImage.w)
        copyH == Min2(Min2(m.charsY, newCharsY) * m.brailleH, oldImage.h)
    IN  [base EXCEPT !.px = [p \in Coords(newImageWidth, newImageHeight) |->
              IF p[1] < copyW /\ p[2] < copyH THEN oldImage.px[p] ELSE base.px[p]]]

\* png.Encode refuses an image with an empty axis before writing a byte
canEncode(img) == img.w > 0 /\ img.h > 0

(* ---------------------------------------------------------------------- *)
(* Decode: GetPixels, lines 223-251                                        *)
(* ---------------------------------------------------------------------- *)
Bit(n, i) == (n \div (2 ^ i)) % 2

\* brailleLookup is the table of the 256 braille glyphs indexed by dot mask;
\* mask bit 2*row+column is the dot at (column, row), the glyph is U+2800
\* plus the Unicode dot bits
brailleLookup(brailleIdx) ==
    10240 + Bit(brailleIdx, 0) + 8 * Bit(brailleIdx, 1) + 2 * Bit(brailleIdx, 2)
          + 16 * Bit(brailleIdx, 3) + 4 * Bit(brailleIdx, 4) + 32 * Bit(brailleIdx, 5)
          + 64 * Bit(brailleIdx, 6) + 128 * Bit(brailleIdx, 7)

\* the bit string built for one cell, read as a base-2 number
brailleIdxAt(img, m, charX, charY) ==
    LET dot(i) == IF shadeType(At(img, charX * m.brailleW + (i % BRAILLE_WIDTH),
                                       charY * m.brailleH + (i \div BRAILLE_WIDTH)))
                     = "colorShaded"
                  THEN 2 ^ i ELSE 0
    IN  dot(0) + dot(1) + dot(2) + dot(3) + dot(4) + dot(5) + dot(6) + dot(7)

decodePixels(img, m) ==
    [charY \in 1..m.charsY |->
        [charX \in 1..m.charsX |-> brailleLookup(brailleIdxAt(img, m, charX - 1, charY - 1))]]

\* GetPixels as one call (the constructor's use of it)
GetPixels(f, name) ==
    IF f.kind = "missing"
    THEN [err |-> decodeError("FileDoesNotExistError"), pixels |-> <<>>,
          paddingX |-> 0, paddingY |-> 0, unpadded |-> FALSE]
    ELSE LET m == measureFile(f, name.paddingX, name.paddingY)
         IN  IF m.err # "nil"
             THEN [err |-> m, pixels |-> <<>>,
                   paddingX |-> name.paddingX, paddingY |-> name.paddingY, unpadded |-> FALSE]
             ELSE IF f.kind # "png"
             THEN [err |-> decodeError("Error reading the image"), pixels |-> <<>>,
                   paddingX |-> name.paddingX, paddingY |-> name.paddingY,
                   unpadded |-> m.isUnpadded]
             ELSE [err |-> nil, pixels |-> decodePixels(ImageOf(f), m),
                   paddingX |-> name.paddingX, paddingY |-> name.paddingY,
                   unpadded |-> m.isUnpadded]

(* ---------------------------------------------------------------------- *)
(* Canvases the program is started on: a layout, a cell grid and a         *)
(* painting chosen by a seed (seed 0 is the untouched default pattern).    *)
(* ---------------------------------------------------------------------- *)
Palette == <<colorWhite, colorBlack, <<255, 0, 0, 255>>, colorTransparentPx,
             colorGray, <<0, 0, 0, 128>>>>

Canvas(unpadded, paddingX, paddingY, charsX, charsY, seed) ==
    LET cellW == IF unpadded THEN BRAILLE_WIDTH ELSE BRAILLE_WIDTH + paddingX
        cellH == IF unpadded THEN BRAILLE_HEIGHT ELSE BRAILLE_HEIGHT + paddingY
        width == charsX * cellW + (IF unpadded THEN 1 ELSE 0)
        height == charsY * cellH + (IF unpadded THEN 1 ELSE 0)
        base == newCanvasImage(width, height, paddingX, paddingY, unpadded)
        isDot(p) == /\ p[1] \div cellW < charsX /\ p[1] % cellW < BRAILLE_WIDTH
                    /\ p[2] \div cellH < charsY /\ p[2] % cellH < BRAILLE_HEIGHT
        paint(p) == Palette[((seed * (1 + p[1] + 2 * p[2])) % Len(Palette)) + 1]
    IN  [base EXCEPT !.px = [p \in Coords(width, height) |->
              IF seed = 0 THEN base.px[p]
              ELSE IF isDot(p) THEN paint(p)
              ELSE IF seed % 2 = 1 THEN base.px[p]
              ELSE paint(p)]]

(* ---------------------------------------------------------------------- *)
(* Spec: the preview model. The event loop runs Update; the command that   *)
(* tea.Every returns runs its callback on a goroutine of its own, so the   *)
(* callback's steps interleave with the steps of a write-operation that    *)
(* Update is executing. Two fields of previewArtModel are not state here:  *)
(* watchTicker, which only View reads, and _fromArgs, which is fixed at    *)
(* construction and read once, by the esc key that leaves the preview.     *)
(* ---------------------------------------------------------------------- *)
MaxChars == 2       \* the resize keys stop growing the grid at this many cells per axis
MaxWrites == 1      \* write-operations started in one run of the program

Pending == [err |-> "pending"]
NoOp == [kind |-> "none", paddingX |-> 0, paddingY |-> 0, resizeX |-> 0, resizeY |-> 0,
         removeNonGrayscale |-> FALSE]
NoResize == [inputs |-> <<0, 0>>, toResizeHeight |-> FALSE, resizing |-> FALSE]
IdleUpd == [pc |-> "idle", op |-> NoOp, m |-> Pending, oldImage |-> NewNRGBA(0, 0),
            newImage |-> NewNRGBA(0, 0), res |-> Pending, done |-> <<>>,
            before |-> MissingFile, statAge |-> -1, writes |-> 0]
IdleTick == [pc |-> "none", busy |-> FALSE, byTick |-> FALSE, m |-> Pending]

InitialFiles(name) ==
    {PngFile(Canvas(u, name.paddingX, name.paddingY, 1, 1, 1)) : u \in BOOLEAN}
    \cup {PngFile(NewNRGBA(1, 1)), PngFile(NewNRGBA(4, 6)), BadBodyFile(3, 5), MissingFile}

\* newPreviewArtModel (lines 113-134) and Init (lines 143-148)
InitPreview ==
    /\ fileName \in {[paddingX |-> 0, paddingY |-> 0], [paddingX |-> 1, paddingY |-> 0]}
    /\ file \in InitialFiles(fileName)
    /\ modAge = 0
    /\ active = "preview"
    /\ quit = FALSE
    /\ writeSignal = <<>>
    /\ LET pixelData == GetPixels(file, fileName)
       IN  preview = [processError |-> nil, updateViewError |-> pixelData.err,
                      paddingX |-> pixelData.paddingX, paddingY |-> pixelData.paddingY,
                      pixels |-> pixelData.pixels, unpadded |-> pixelData.unpadded,
                      notifMessage |-> "", rOpts |-> NoResize]
    /\ upd = IdleUpd
    /\ tick = [IdleTick EXCEPT !.pc = "open"]
    /\ msgs = <<>>

MeasureIdle == mArgs = [w |-> 1, h |-> 1, paddingX |-> 0, paddingY |-> 0] /\ mRes = Pending
ToggleIdle == tOrig = MissingFile /\ tCount = 0 /\ hist = <<>>

\* newCreateCanvasModel (model_create_canvas.go, lines 62-108): width and
\* height empty, paddings "0" and "2", file name empty. A number field is
\* held as the number typed, 0 for a field that does not parse as one.
NoForm == [inputs |-> [brailleW |-> 0, brailleH |-> 0, paddingX |-> 0, paddingY |-> 2,
                       fileName |-> ""],
           err |-> "nil", showConfirmPrompt |-> FALSE, created |-> FALSE]
CreateIdle == form = NoForm

NoImport == [grid |-> <<>>, text |-> <<>>, textExists |-> FALSE, res |-> Pending,
             createErr |-> "pending", decoded |-> Pending]
\* the text files an export can name: the field's text is one of these paths
Paths == {"", "a.txt", "b.txt"}
NoText == [exists |-> FALSE, text |-> <<>>]

\* exportOptionStore as the preview is built (lines 94-98, 113-134)
NoExport == [exporting |-> FALSE, showConfirmPrompt |-> FALSE, input |-> "",
             processError |-> nil, notifMessage |-> "", key |-> "", crashed |-> FALSE,
             files |-> [p \in Paths |-> NoText]]
ImportIdle == imp = NoImport /\ exp = NoExport

Init == InitPreview /\ MeasureIdle /\ ToggleIdle /\ CreateIdle /\ ImportIdle

Running == ~quit /\ active = "preview"

(* ---- the write-operations, statement by statement ---- *)

\* the order of the statements of togglePaddingState, cleanCanvas and resizeCanvas
writeSteps_truncateFirst == <<"stat", "measure", "create", "decode", "build", "encode">>

writeSteps == <<"stat", "measure", "decode", "build", "create", "encode">>

StepAfter(step) ==
    LET i == CHOOSE j \in 1..Len(writeSteps) : writeSteps[j] = step
    IN  IF i = Len(writeSteps) THEN "release" ELSE writeSteps[i + 1]

\* time.Since(fileStats.ModTime()) < time.Second
tooSoon_never(age) == age < 0

tooSoon(age) == age < OneSecond

Return(err) == upd' = [upd EXCEPT !.pc = "release", !.res = err]
Proceed(step) == [upd EXCEPT !.pc = StepAfter(step), !.done = Append(upd.done, step)]

\* os.Stat and the debounce test
WStat ==
    /\ ~quit /\ upd.pc = "stat"
    /\ IF file.kind = "missing"
       THEN Return(decodeError("FileDoesNotExistError"))
       ELSE IF tooSoon(modAge)
       THEN upd' = [upd EXCEPT !.pc = "release", !.res = silentError,
                               !.done = Append(upd.done, "stat"), !.statAge = modAge]
       ELSE upd' = [Proceed("stat") EXCEPT !.statAge = modAge]
    /\ UNCHANGED <<file, modAge, fileName, active, quit, preview, writeSignal, tick, msgs>>

\* getCanvasMeasurement
WMeasure ==
    /\ ~quit /\ upd.pc = "measure"
    /\ LET m == measureFile(file, upd.op.paddingX, upd.op.paddingY)
       IN  IF m.err # "nil" THEN Return(m)
           ELSE upd' = [Proceed("measure") EXCEPT !.m = m]
    /\ UNCHANGED <<file, modAge, fileName, active, quit, preview, writeSignal, tick, msgs>>

\* os.Open, png.Decode, Close
WDecode ==
    /\ ~quit /\ upd.pc = "decode"
    /\ IF file.kind = "missing" THEN Return(decodeError("FileDoesNotExistError"))
       ELSE IF file.kind # "png" THEN Return(decodeError("png"))
       ELSE upd' = [Proceed("decode") EXCEPT !.oldImage = ImageOf(file)]
    /\ UNCHANGED <<file, modAge, fileName, active, quit, preview, writeSignal, tick, msgs>>

\* the replacement raster, in memory
WBuild ==
    /\ ~quit /\ upd.pc = "build"
    /\ LET op == upd.op
           newImage ==
               IF op.kind = "toggle"
               THEN toggleImage(upd.oldImage, upd.m, op.paddingX, op.paddingY)
               ELSE IF op.kind = "clean"
               THEN cleanImage(upd.oldImage, upd.m, op.paddingX, op.paddingY,
                               op.removeNonGrayscale)
               ELSE resizeImage(upd.oldImage, upd.m, op.paddingX, op.paddingY,
                                op.resizeX, op.resizeY)
       IN  upd' = [Proceed("build") EXCEPT !.newImage = newImage]
    /\ UNCHANGED <<file, modAge, fileName, active, quit, preview, writeSignal, tick, msgs>>

\* os.Create: truncates the file, or fails and leaves it alone
WCreate ==
    /\ ~quit /\ upd.pc = "create"
    /\ \E ok \in BOOLEAN :
         IF ok
         THEN /\ file' = EmptyFile
              /\ modAge' = 0
              /\ upd' = Proceed("create")
         ELSE /\ Return(IF upd.op.kind = "toggle" THEN decodeError("create") ELSE createError)
              /\ UNCHANGED <<file, modAge>>
    /\ UNCHANGED <<fileName, active, quit, preview, writeSignal, tick, msgs>>

\* png.Encode: rejects an empty image, or writes it, or stops at a write error
WEncode ==
    /\ ~quit /\ upd.pc = "encode"
    /\ IF ~canEncode(upd.newImage)
       THEN /\ Return(encodeError)
            /\ UNCHANGED <<file, modAge>>
       ELSE \/ /\ file' = PngFile(upd.newImage)
               /\ modAge' = 0
               /\ upd' = [Proceed("encode") EXCEPT !.res = nil]
            \/ /\ file' \in {EmptyFile, BadBodyFile(upd.newImage.w, upd.newImage.h)}
               /\ modAge' = 0
               /\ Return(encodeError)
    /\ UNCHANGED <<fileName, active, quit, preview, writeSignal, tick, msgs>>

(* ---- Update ---- *)

Keys == {"ctrl+c", "esc", "r", "c", "C", "t", "enter", "+", "-", "tab"}

\* m.writeSignal <- struct{}{} followed by the call of the write-operation;
\* resizeCanvas with both deltas zero returns nil at once (lines 768-770)
StartWrite(op) ==
    LET noop == op.kind = "resize" /\ op.resizeX = 0 /\ op.resizeY = 0
    IN  /\ Len(writeSignal) = 0
        /\ upd.writes < MaxWrites
        /\ writeSignal' = <<"token">>
        /\ upd' = [IdleUpd EXCEPT !.pc = IF noop THEN "release" ELSE writeSteps[1],
                                  !.op = op,
                                  !.res = IF noop THEN nil ELSE Pending,
                                  !.before = file,
                                  !.writes = upd.writes + 1]

WriteOp(kind, resizeX, resizeY, removeNonGrayscale) ==
    [kind |-> kind, paddingX |-> preview.paddingX, paddingY |-> preview.paddingY,
     resizeX |-> resizeX, resizeY |-> resizeY, removeNonGrayscale |-> removeNonGrayscale]

\* mutant: the inputs are left as the keys made them
Clamp_none(inputs, measure) == inputs

\* lines 667-673
Clamp(inputs, measure) ==
    <<IF inputs[1] + measure.charsX <= 0 THEN -(measure.charsX - 1) ELSE inputs[1],
      IF inputs[2] + measure.charsY <= 0 THEN -(measure.charsY - 1) ELSE inputs[2]>>

\* Update for a tea.KeyMsg while resizing (lines 611-674, 693-696)
ResizeKey(k) ==
    LET opts == preview.rOpts
        toResizeIdx == IF opts.toResizeHeight THEN 2 ELSE 1
        measure == measureFile(file, preview.paddingX, preview.paddingY)
        chars == IF toResizeIdx = 1 THEN measure.charsX ELSE measure.charsY
        stay == UNCHANGED <<writeSignal, upd>>
    IN  IF measure.err # "nil"
        THEN preview' = [preview EXCEPT !.processError = measure] /\ stay
        ELSE IF preview.processError.err # "nil"
        THEN UNCHANGED preview /\ stay
        ELSE IF k = "+"
        THEN /\ opts.inputs[toResizeIdx] + chars < MaxChars
             /\ preview' = [preview EXCEPT !.rOpts.inputs =
                    Clamp([opts.inputs EXCEPT ![toResizeIdx] = @ + 1], measure)]
             /\ stay
        ELSE IF k = "-"
        THEN preview' = [preview EXCEPT !.rOpts.inputs =
                    Clamp([opts.inputs EXCEPT ![toResizeIdx] = @ - 1], measure)] /\ stay
        ELSE IF k = "tab"
        THEN preview' = [preview EXCEPT !.rOpts.toResizeHeight = ~opts.toResizeHeight,
                                        !.rOpts.inputs = Clamp(opts.inputs, measure)] /\ stay
        ELSE IF k = "c"
        THEN preview' = [preview EXCEPT !.rOpts.resizing = FALSE] /\ stay
        ELSE IF k = "enter"
        THEN StartWrite(WriteOp("resize", opts.inputs[1], opts.inputs[2], FALSE))
             /\ UNCHANGED preview
        ELSE preview' = [preview EXCEPT !.rOpts.inputs = Clamp(opts.inputs, measure)] /\ stay

\* Update for a tea.KeyMsg outside the resize mode (lines 693-761)
MainKey(k) ==
    LET stay == UNCHANGED <<writeSignal, upd>>
    IN  IF k = "r"
        THEN preview' = [preview EXCEPT !.rOpts = [NoResize EXCEPT !.resizing = TRUE]] /\ stay
        ELSE IF k \in {"c", "C", "t"} /\ preview.processError.err = "nil"
        THEN /\ StartWrite(WriteOp(IF k = "t" THEN "toggle" ELSE "clean", 0, 0, k = "C"))
             /\ UNCHANGED preview
        ELSE UNCHANGED preview /\ stay

\* previewArtModel.Update for a tea.KeyMsg (lines 509-765)
KeyPress ==
    /\ Running /\ upd.pc = "idle"
    /\ \E k \in Keys :
         IF k = "ctrl+c"
         THEN quit' = TRUE /\ UNCHANGED <<active, preview, writeSignal, upd>>
         ELSE IF k = "esc"
         THEN IF preview.rOpts.resizing
              THEN /\ preview' = [preview EXCEPT !.rOpts.resizing = FALSE]
                   /\ UNCHANGED <<active, quit, writeSignal, upd>>
              ELSE \E fromArgs \in BOOLEAN :
                     IF fromArgs
                     THEN quit' = TRUE /\ UNCHANGED <<active, preview, writeSignal, upd>>
                     ELSE active' = "start" /\ UNCHANGED <<quit, preview, writeSignal, upd>>
         ELSE IF Len(writeSignal) # 0
         THEN UNCHANGED <<active, quit, preview, writeSignal, upd>>
         ELSE /\ IF preview.rOpts.resizing THEN ResizeKey(k) ELSE MainKey(k)
              /\ UNCHANGED <<active, quit>>
    /\ UNCHANGED <<file, modAge, fileName, tick, msgs>>

\* what Update does with the write-operation's result (lines 648-663,
\* 723-738, 748-760): the model it leaves and the model it returns
handleResult_noSilent(pv, op, res) ==
    IF res.err # "nil"
    THEN [preview |-> [pv EXCEPT !.processError = res], active |-> "panic"]
    ELSE [preview |-> [pv EXCEPT !.processError = nil], active |-> "preview"]

handleResult(pv, op, res) ==
    IF res.err # "nil"
    THEN IF res.err = "silentError"
         THEN [preview |-> [pv EXCEPT !.processError = nil], active |-> "preview"]
         ELSE [preview |-> [pv EXCEPT !.processError = res], active |-> "panic"]
    ELSE LET done == [pv EXCEPT !.processError = nil]
         IN  IF op.kind = "resize"
             THEN [preview |-> [done EXCEPT
                        !.notifMessage = IF op.resizeX # 0 \/ op.resizeY # 0
                                         THEN "finished resizing the canvas!" ELSE @,
                        !.rOpts.resizing = FALSE],
                   active |-> "preview"]
             ELSE IF op.kind = "clean"
             THEN [preview |-> [done EXCEPT
                        !.notifMessage = IF op.removeNonGrayscale
                                         THEN "finished CLEANING the canvas!"
                                         ELSE "finished cleaning the canvas!"],
                   active |-> "preview"]
             ELSE [preview |-> [done EXCEPT !.notifMessage = "finished toggling the padding!"],
                   active |-> "preview"]

\* <-m.writeSignal and the rest of the key's case
WRelease ==
    /\ ~quit /\ upd.pc = "release"
    /\ Len(writeSignal) # 0
    /\ writeSignal' = Tail(writeSignal)
    /\ LET r == handleResult(preview, upd.op, upd.res)
       IN  preview' = r.preview /\ active' = r.active
    /\ upd' = [IdleUpd EXCEPT !.writes = upd.writes, !.res = upd.res]
    /\ UNCHANGED <<file, modAge, fileName, quit, tick, msgs>>

(* ---- the poll: the callback given to tea.Every (lines 150-159) ---- *)

\* a write-operation has truncated the file and has not finished encoding
MidWrite == upd.pc = "encode"

\* the timer fires: if len(m.writeSignal) != 0
TickFire ==
    /\ ~quit /\ tick.pc = "timer"
    /\ IF Len(writeSignal) # 0
       THEN tick' = [tick EXCEPT !.pc = "recv", !.busy = TRUE, !.byTick = TRUE]
       ELSE tick' = [tick EXCEPT !.pc = "open", !.busy = FALSE, !.byTick = TRUE]
    /\ UNCHANGED <<file, modAge, fileName, active, quit, preview, writeSignal, upd, msgs>>

\* <-m.writeSignal
TickRecv ==
    /\ ~quit /\ tick.pc = "recv"
    /\ Len(writeSignal) # 0
    /\ writeSignal' = Tail(writeSignal)
    /\ tick' = [tick EXCEPT !.pc = "open"]
    /\ UNCHANGED <<file, modAge, fileName, active, quit, preview, upd, msgs>>

SendMsg(err, pixels) ==
    /\ msgs' = Append(msgs, [err |-> err, pixels |-> pixels])
    /\ tick' = [tick EXCEPT !.pc = "none", !.busy = FALSE, !.m = Pending]

\* GetPixels: os.Open and the file name (lines 167-207)
GPOpen ==
    /\ ~quit /\ tick.pc = "open"
    /\ IF file.kind = "missing"
       THEN SendMsg(decodeError("FileDoesNotExistError"), <<>>) /\ UNCHANGED preview
       ELSE /\ tick' = [tick EXCEPT !.pc = "measure"]
            /\ preview' = [preview EXCEPT !.paddingX = fileName.paddingX,
                                          !.paddingY = fileName.paddingY]
            /\ UNCHANGED msgs
    /\ UNCHANGED <<file, modAge, fileName, active, quit, writeSignal, upd>>

\* GetPixels: getCanvasMeasurement (lines 209-214)
GPMeasure ==
    /\ ~quit /\ tick.pc = "measure"
    /\ LET m == measureFile(file, preview.paddingX, preview.paddingY)
       IN  IF m.err # "nil"
           THEN SendMsg(m, <<>>) /\ UNCHANGED preview
           ELSE /\ tick' = [tick EXCEPT !.pc = "decode", !.m = m]
                /\ preview' = [preview EXCEPT !.unpadded = m.isUnpadded]
                /\ UNCHANGED msgs
    /\ UNCHANGED <<file, modAge, fileName, active, quit, writeSignal, upd>>

\* GetPixels: png.Decode and the cells (lines 216-251)
GPDecode ==
    /\ ~quit /\ tick.pc = "decode"
    /\ IF file.kind # "png"
       THEN SendMsg(decodeError("Error reading the image"), <<>>)
       ELSE SendMsg(nil, decodePixels(ImageOf(file), tick.m))
    /\ UNCHANGED <<file, modAge, fileName, active, quit, preview, writeSignal, upd>>

\* previewArtModel.Update for an updatePreviewMsg (lines 611-622, 667-691)
UpdatePoll ==
    /\ Running /\ upd.pc = "idle" /\ msgs # <<>>
    /\ msgs' = Tail(msgs)
    /\ LET msg == Head(msgs)
           measure == measureFile(file, preview.paddingX, preview.paddingY)
           clamped == IF preview.rOpts.resizing
                      THEN [preview EXCEPT !.rOpts.inputs = Clamp(@, measure)]
                      ELSE preview
       IN  IF preview.rOpts.resizing /\ measure.err # "nil"
           THEN /\ preview' = [preview EXCEPT !.processError = measure]
                /\ UNCHANGED <<active, quit, tick>>
           ELSE IF msg.err.err = "decodeError"
           THEN /\ preview' = [clamped EXCEPT !.updateViewError = msg.err]
                /\ active' = "panic"
                /\ quit' = TRUE
                /\ UNCHANGED tick
           ELSE /\ preview' = [clamped EXCEPT
                                 !.updateViewError = msg.err,
                                 !.pixels = IF msg.err.err = "nil" THEN msg.pixels ELSE @]
                /\ tick' = [tick EXCEPT !.pc = "timer"]
                /\ UNCHANGED <<active, quit>>
    /\ UNCHANGED <<file, modAge, fileName, writeSignal, upd>>

\* panicMsgModel.Update (model_panic_message.go, lines 13-15)
PanicUpdate ==
    /\ ~quit /\ active = "panic" /\ upd.pc = "idle"
    /\ quit' = TRUE
    /\ msgs' = IF msgs # <<>> THEN Tail(msgs) ELSE msgs
    /\ UNCHANGED <<file, modAge, fileName, active, preview, writeSignal, upd, tick>>

\* a second goes by
Pass ==
    /\ ~quit /\ modAge < OneSecond
    /\ modAge' = modAge + 1
    /\ UNCHANGED <<file, fileName, active, quit, preview, writeSignal, upd, tick, msgs>>

Next ==
    \/ (KeyPress /\ UNCHANGED <<measureVars, toggleVars, createVars, importVars>>)
    \/ (WStat /\ UNCHANGED <<measureVars, toggleVars, createVars, importVars>>)
    \/ (WMeasure /\ UNCHANGED <<measureVars, toggleVars, createVars, importVars>>)
    \/ (WDecode /\ UNCHANGED <<measureVars, toggleVars, createVars, importVars>>)
    \/ (WBuild /\ UNCHANGED <<measureVars, toggleVars, createVars, importVars>>)
    \/ (WCreate /\ UNCHANGED <<measureVars, toggleVars, createVars, importVars>>)
    \/ (WEncode /\ UNCHANGED <<measureVars, toggleVars, createVars, importVars>>)
    \/ (WRelease /\ UNCHANGED <<measureVars, toggleVars, createVars, importVars>>)
    \/ (TickFire /\ UNCHANGED <<measureVars, toggleVars, createVars, importVars>>)
    \/ (TickRecv /\ UNCHANGED <<measureVars, toggleVars, createVars, importVars>>)
    \/ (GPOpen /\ UNCHANGED <<measureVars, toggleVars, createVars, importVars>>)
    \/ (GPMeasure /\ UNCHANGED <<measureVars, toggleVars, createVars, importVars>>)
    \/ (GPDecode /\ UNCHANGED <<measureVars, toggleVars, createVars, importVars>>)
    \/ (UpdatePoll /\ UNCHANGED <<measureVars, toggleVars, createVars, importVars>>)
    \/ (PanicUpdate /\ UNCHANGED <<measureVars, toggleVars, createVars, importVars>>)
    \/ (Pass /\ UNCHANGED <<measureVars, toggleVars, createVars, importVars>>)

Spec == Init /\ [][Next]_vars

(* ---------------------------------------------------------------------- *)
(* SpecMeasure                                                             *)
(* ---------------------------------------------------------------------- *)
FileIdle ==
    /\ fileName = [paddingX |-> 0, paddingY |-> 0]
    /\ file = MissingFile
    /\ modAge = OneSecond

ModelIdle ==
    /\ active = "none"
    /\ quit = TRUE
    /\ preview = [processError |-> nil, updateViewError |-> nil, paddingX |-> 0,
                  paddingY |-> 0, pixels |-> <<>>, unpadded |-> FALSE,
                  notifMessage |-> "", rOpts |-> NoResize]
    /\ writeSignal = <<>>
    /\ upd = IdleUpd
    /\ tick = IdleTick
    /\ msgs = <<>>

InitMeasure ==
    /\ FileIdle /\ ModelIdle /\ ToggleIdle /\ CreateIdle /\ ImportIdle
    /\ mArgs \in [w : 1..MaxRasterW, h : 1..MaxRasterH,
                  paddingX : 0..MaxPadding, paddingY : 0..MaxPadding]
    /\ mRes = [err |-> "pending"]

Measure ==
    /\ mRes.err = "pending"
    /\ mRes' = getCanvasMeasurement(mArgs.w, mArgs.h, mArgs.paddingX, mArgs.paddingY)
    /\ UNCHANGED <<mArgs, fileVars, modelVars, toggleVars, createVars, importVars>>

NextMeasure == Measure

SpecMeasure == InitMeasure /\ [][NextMeasure]_vars

(* ---------------------------------------------------------------------- *)
(* SpecToggle                                                              *)
(* ---------------------------------------------------------------------- *)
MaxCellsX == 4
MaxCellsY == 2
MaxSeed == 2
MaxToggles == 2

\* togglePaddingState as one call (lines 254-329), no I/O failure
togglePaddingState(f, age, paddingX, paddingY) ==
    IF f.kind = "missing" THEN [err |-> decodeError("FileDoesNotExistError"), file |-> f]
    ELSE IF tooSoon(age) THEN [err |-> silentError, file |-> f]
    ELSE LET m == measureFile(f, paddingX, paddingY)
         IN  IF m.err # "nil" THEN [err |-> m, file |-> f]
             ELSE IF f.kind # "png" THEN [err |-> decodeError("png"), file |-> f]
             ELSE LET newImage == toggleImage(ImageOf(f), m, paddingX, paddingY)
                  IN  IF canEncode(newImage)
                      THEN [err |-> nil, file |-> PngFile(newImage)]
                      ELSE [err |-> encodeError, file |-> EmptyFile]

InitToggle ==
    /\ ModelIdle /\ MeasureIdle /\ CreateIdle /\ ImportIdle
    /\ fileName \in [paddingX : 0..MaxPadding, paddingY : 0..MaxPadding]
    /\ \E unpadded \in BOOLEAN, charsX \in 1..MaxCellsX, charsY \in 1..MaxCellsY,
          seed \in 0..MaxSeed :
         file = PngFile(Canvas(unpadded, fileName.paddingX, fileName.paddingY,
                               charsX, charsY, seed))
    /\ modAge \in {0, OneSecond}
    /\ tOrig = file
    /\ tCount = 0
    /\ hist = <<>>

Toggle ==
    /\ tCount < MaxToggles
    /\ LET r == togglePaddingState(file, modAge, fileName.paddingX, fileName.paddingY)
       IN  /\ file' = r.file
           /\ modAge' = IF r.file # file THEN 0 ELSE modAge
           /\ tCount' = IF r.err.err = "nil" THEN tCount + 1 ELSE tCount
    /\ UNCHANGED <<fileName, tOrig, hist, modelVars, measureVars, createVars, importVars>>

Wait ==
    /\ modAge < OneSecond
    /\ modAge' = modAge + 1
    /\ UNCHANGED <<file, fileName, tOrig, tCount, hist, modelVars, measureVars, createVars, importVars>>

NextToggle == Toggle \/ Wait

SpecToggle == InitToggle /\ [][NextToggle]_vars

\* the classes of the 8 dot samples of cell (charX, charY) of img under m
CellClasses(img, m, charX, charY) ==
    [i \in 0..7 |-> shadeType(At(img, charX * m.brailleW + (i % 2),
                                      charY * m.brailleH + (i \div 2)))]

SameCells(f0, f2, name) ==
    LET m0 == measureFile(f0, name.paddingX, name.paddingY)
        m2 == measureFile(f2, name.paddingX, name.paddingY)
    IN  /\ m2.err = "nil"
        /\ <<m2.charsX, m2.charsY>> = <<m0.charsX, m0.charsY>>
        /\ \A charX \in 0..(m0.charsX - 1), charY \in 0..(m0.charsY - 1) :
              CellClasses(ImageOf(f2), m2, charX, charY)
                  = CellClasses(ImageOf(f0), m0, charX, charY)

\* the unpadded raster of the canvas's grid also passes the padded test
Ambiguous(f, name) ==
    LET m == measureFile(f, name.paddingX, name.paddingY)
    IN  /\ (2 * m.charsX + 1) % (2 + name.paddingX) = 0
        /\ (4 * m.charsY + 1) % (4 + name.paddingY) = 0

\* C10 as stated: for every canvas, two successful toggles in a row with the
\* same padding spec give a raster with the original cell counts in which
\* every cell has the same classification of each of its 8 dot samples.
C10_ToggleTwiceAnyCanvas == tCount = 2 => SameCells(tOrig, file, fileName)

\* The round trip does hold for every canvas whose unpadded raster,
\* (2*cx+1) x (4*cy+1) pixels, does not also pass the padded test of the
\* padding spec.
ToggleTwiceUnambiguous ==
    (tCount = 2 /\ ~Ambiguous(tOrig, fileName)) => SameCells(tOrig, file, fileName)

\* a padded canvas of several cells with shaded and comment samples has been
\* toggled twice
ToggleTwiceReached ==
    /\ tCount = 2 /\ ~Ambiguous(tOrig, fileName)
    /\ fileName.paddingX > 0
    /\ LET m == measureFile(tOrig, fileName.paddingX, fileName.paddingY)
       IN  /\ ~m.isUnpadded /\ m.charsX > 1
           /\ \E i \in 0..7 : CellClasses(ImageOf(tOrig), m, 1, 0)[i] = "colorShaded"
           /\ \E i \in 0..7 : CellClasses(ImageOf(tOrig), m, 1, 0)[i] = "colorNonGrayscale"

(* ---------------------------------------------------------------------- *)
(* Claims on the write signal, the poll and the write-operations (Spec)    *)
(* ---------------------------------------------------------------------- *)
Range(seq) == {seq[i] : i \in 1..Len(seq)}

\* the poll's callback is inside GetPixels, the file open and not yet decoded
PollInGetPixels == tick.byTick /\ tick.pc \in {"measure", "decode"}

\* C3: no execution of Decode by the poll tick overlaps a write-operation on
\* the same file: the poll is never inside GetPixels between the
\* write-operation's truncation of the file and the end of its encoding.
C3_PollNeverReadsMidWrite == ~(PollInGetPixels /\ MidWrite)

\* C4: a poll tick that finds the write signal occupied skips its Decode for
\* this cycle: it does not go on to read the file.
C4_BusyTickSkips == tick.busy => tick.pc \notin {"open", "measure", "decode"}

\* C5: the Update call that put the token into the slot never blocks on the
\* release: when it reaches its receive, the token is still in the slot (no
\* other statement of the program sends on the channel).
C5_ReleaseNeverBlocks == upd.pc = "release" => Len(writeSignal) # 0

\* C6: toggle, resize and clean are all-or-nothing: whenever one of them
\* returns an error or the too-soon condition, the file content is exactly
\* what it was before the call.
C6_AllOrNothing == (upd.pc = "release" /\ upd.res.err # "nil") => file = upd.before

\* C7: the file is truncated only after, in this order, the debounce check
\* passed, measurement succeeded, the old raster was decoded and the
\* replacement raster was built; and a write-operation that has truncated
\* the file returns no geometry error and no decode error.
C7_TruncateLast ==
    /\ \A i \in 1..Len(upd.done) :
          upd.done[i] = "create" =>
              SubSeq(upd.done, 1, i) = <<"stat", "measure", "decode", "build", "create">>
    /\ "create" \in Range(upd.done) =>
          upd.res.err \notin {"decodeError", "InvalidImgDimensionE"}

\* a write-operation has truncated the file and is about to encode
C7_Witness == upd.pc = "encode" /\ file.kind = "empty" /\ upd.before.kind = "png"

\* C8: a write-operation looks at the modification time before anything else
\* it does with the raster, and when that time is less than one second old it
\* returns the too-soon condition without measuring, decoding or modifying
\* the file.
C8_DebounceFirst ==
    /\ upd.done # <<>> => upd.done[1] = "stat"
    /\ (upd.statAge >= 0 /\ upd.statAge < OneSecond) =>
          /\ upd.res.err = "silentError"
          /\ upd.done = <<"stat">>
          /\ file = upd.before

\* a toggle has returned the too-soon condition
C8_Witness == upd.pc = "release" /\ upd.op.kind = "toggle" /\ upd.res.err = "silentError"

\* C9: when a write-operation returns the too-soon condition, Update clears
\* processError, sets no notification, keeps the preview model active in the
\* same mode with the same resize deltas, and does not switch to the
\* panic-message model.
C9_TooSoonIgnored ==
    [][(upd.pc = "release" /\ upd.res.err = "silentError" /\ upd'.pc = "idle") =>
          /\ preview'.processError = nil
          /\ preview'.notifMessage = preview.notifMessage
          /\ preview'.rOpts = preview.rOpts
          /\ active' = "preview"]_vars

\* Update has returned from a resize that was too soon, still in resize mode
C9_Witness ==
    /\ upd.pc = "idle" /\ upd.res.err = "silentError" /\ active = "preview"
    /\ preview.rOpts.resizing /\ preview.rOpts.inputs # <<0, 0>>

(* ---------------------------------------------------------------------- *)
(* Claims on measurement                                                   *)
(* ---------------------------------------------------------------------- *)
\* C1: measurement is decided in a fixed order. If W % (2+px) = 0 and
\* H % (4+py) = 0 the result is padded with cell size (2+px, 4+py) and cell
\* counts (W/(2+px), H/(4+py)), also when the unpadded test would pass;
\* otherwise, if (W-1) % 2 = 0 and (H-1) % 4 = 0, it is unpadded with cell
\* size (2,4) and cell counts ((W-1)/2, (H-1)/4); otherwise it is a geometry
\* error. A 20x24 raster with padding (0,2) is padded, 10x4 cells of 2x6.
C1_MeasureOrder ==
    mRes.err # "pending" =>
        LET W == mArgs.w
            H == mArgs.h
            cw == 2 + mArgs.paddingX
            ch == 4 + mArgs.paddingY
        IN  /\ IF W % cw = 0 /\ H % ch = 0
               THEN /\ mRes.err = "nil"
                    /\ ~mRes.isUnpadded
                    /\ <<mRes.brailleW, mRes.brailleH>> = <<cw, ch>>
                    /\ <<mRes.charsX, mRes.charsY>> = <<W \div cw, H \div ch>>
               ELSE IF (W - 1) % 2 = 0 /\ (H - 1) % 4 = 0
               THEN /\ mRes.err = "nil"
                    /\ mRes.isUnpadded
                    /\ <<mRes.brailleW, mRes.brailleH>> = <<2, 4>>
                    /\ <<mRes.charsX, mRes.charsY>> = <<(W - 1) \div 2, (H - 1) \div 4>>
               ELSE mRes.err = "InvalidImgDimensionE"
            /\ (mArgs = [w |-> 20, h |-> 24, paddingX |-> 0, paddingY |-> 2]) =>
                 /\ mRes.err = "nil" /\ ~mRes.isUnpadded
                 /\ <<mRes.charsX, mRes.charsY, mRes.brailleW, mRes.brailleH>> = <<10, 4, 2, 6>>

\* a raster that passes both tests has been measured (the tie)
C1_Witness ==
    /\ mRes.err = "nil"
    /\ mArgs.w % (2 + mArgs.paddingX) = 0 /\ mArgs.h % (4 + mArgs.paddingY) = 0
    /\ (mArgs.w - 1) % 2 = 0 /\ (mArgs.h - 1) % 4 = 0

\* C2: every measurement returned without error satisfies
\* charsX * brailleW = effectiveWidth and charsY * brailleH = effectiveHeight,
\* the effective size being the raster size when padded and the raster size
\* minus one in each axis when unpadded.
C2_MeasureInvariant ==
    mRes.err = "nil" =>
        LET effectiveWidth == IF mRes.isUnpadded THEN mArgs.w - 1 ELSE mArgs.w
            effectiveHeight == IF mRes.isUnpadded THEN mArgs.h - 1 ELSE mArgs.h
        IN  /\ mRes.charsX * mRes.brailleW = effectiveWidth
            /\ mRes.charsY * mRes.brailleH = effectiveHeight

\* an unpadded measurement with at least one cell has been returned
C2_Witness ==
    mRes.err = "nil" /\ mRes.isUnpadded /\ mRes.charsX >= 1 /\ mRes.charsY >= 1

\* C16: when measurement fails, the geometry error identifies the axis that
\* failed with its own divisor and actual size: a failure of the height test
\* names height, the divisor for height (4 in the unpadded attempt) and the
\* raster height; a failure of the width test names width, divisor 2 and the
\* raster width; and the error records whether the unpadded adjustment was
\* attempted. The width test is made first.
C16_ErrorNamesFailingAxis ==
    mRes.err = "InvalidImgDimensionE" =>
        /\ mRes.isUnpadded
        /\ IF (mArgs.w - 1) % 2 # 0
           THEN /\ mRes.errorOnX
                /\ mRes.mustBeDivisibleBy = 2
                /\ mRes.measure = mArgs.w
           ELSE /\ ~mRes.errorOnX
                /\ mRes.mustBeDivisibleBy = 4
                /\ mRes.measure = mArgs.h

\* The error of a failed width test is as C16 says.
WidthErrorNamesWidth ==
    (mRes.err = "InvalidImgDimensionE" /\ (mArgs.w - 1) % 2 # 0) =>
        /\ mRes.isUnpadded /\ mRes.errorOnX
        /\ mRes.mustBeDivisibleBy = 2 /\ mRes.measure = mArgs.w

\* C17 as stated: measuring a 20x24 raster with requested padding (0,0)
\* fails with a geometry error that names the height.
C17_Fails20x24 ==
    (mArgs = [w |-> 20, h |-> 24, paddingX |-> 0, paddingY |-> 0] /\ mRes.err # "pending") =>
        (mRes.err = "InvalidImgDimensionE" /\ ~mRes.errorOnX)

\* C17 amended: measuring a 20x24 raster with requested padding (0,0)
\* succeeds: the raster is padded, 10x6 cells of 2x4 pixels.
C17_Measures20x24 ==
    (mArgs = [w |-> 20, h |-> 24, paddingX |-> 0, paddingY |-> 0] /\ mRes.err # "pending") =>
        /\ mRes.err = "nil" /\ ~mRes.isUnpadded
        /\ <<mRes.charsX, mRes.charsY, mRes.brailleW, mRes.brailleH>> = <<10, 6, 2, 4>>

\* the 20x24 raster has been measured with padding (0,0) and a measurement
\* returned
C17_Witness ==
    mArgs = [w |-> 20, h |-> 24, paddingX |-> 0, paddingY |-> 0] /\ mRes.err = "nil"

(* ---------------------------------------------------------------------- *)
(* SpecResize: resizeCanvas called twice on a canvas, first growing the    *)
(* grid, then shrinking it. The deltas are those the resize mode of the    *)
(* preview lets through: it clamps an input that would leave less than one *)
(* cell on an axis (lines 667-673).                                        *)
(* ---------------------------------------------------------------------- *)
MaxDelta == 2

\* mutant: the test for two zero deltas is missing
resizeCanvas_noZeroTest(f, age, paddingX, paddingY, resizeX, resizeY) ==
    IF f.kind = "missing" THEN [err |-> decodeError("FileDoesNotExistError"), file |-> f]
    ELSE IF tooSoon(age) THEN [err |-> silentError, file |-> f]
    ELSE LET m == measureFile(f, paddingX, paddingY)
         IN  IF m.err # "nil" THEN [err |-> m, file |-> f]
             ELSE IF f.kind # "png" THEN [err |-> decodeError("png"), file |-> f]
             ELSE LET newImage == resizeImage(ImageOf(f), m, paddingX, paddingY,
                                              resizeX, resizeY)
                  IN  IF canEncode(newImage)
                      THEN [err |-> nil, file |-> PngFile(newImage)]
                      ELSE [err |-> encodeError, file |-> EmptyFile]

\* resizeCanvas as one call (lines 767-830), no I/O failure
resizeCanvas(f, age, paddingX, paddingY, resizeX, resizeY) ==
    IF resizeX = 0 /\ resizeY = 0 THEN [err |-> nil, file |-> f]
    ELSE IF f.kind = "missing" THEN [err |-> decodeError("FileDoesNotExistError"), file |-> f]
    ELSE IF tooSoon(age) THEN [err |-> silentError, file |-> f]
    ELSE LET m == measureFile(f, paddingX, paddingY)
         IN  IF m.err # "nil" THEN [err |-> m, file |-> f]
             ELSE IF f.kind # "png" THEN [err |-> decodeError("png"), file |-> f]
             ELSE LET newImage == resizeImage(ImageOf(f), m, paddingX, paddingY,
                                              resizeX, resizeY)
                  IN  IF canEncode(newImage)
                      THEN [err |-> nil, file |-> PngFile(newImage)]
                      ELSE [err |-> encodeError, file |-> EmptyFile]

InitResize ==
    /\ ModelIdle /\ MeasureIdle /\ CreateIdle /\ ImportIdle
    /\ fileName \in [paddingX : 0..MaxPadding, paddingY : 0..MaxPadding]
    /\ \E unpadded \in BOOLEAN, charsX \in 1..MaxCellsX, charsY \in 1..MaxCellsY,
          seed \in 0..MaxSeed :
         file = PngFile(Canvas(unpadded, fileName.paddingX, fileName.paddingY,
                               charsX, charsY, seed))
    /\ modAge \in {0, OneSecond}
    /\ tOrig = file
    /\ tCount = 0
    /\ hist = <<>>

\* the inputs the resize mode holds when enter is pressed
Clamped(f, name, resizeX, resizeY) ==
    LET measure == measureFile(f, name.paddingX, name.paddingY)
    IN  measure.err = "nil" /\ Clamp(<<resizeX, resizeY>>, measure) = <<resizeX, resizeY>>

ResizeCall(resizeX, resizeY) ==
    /\ Clamped(file, fileName, resizeX, resizeY)
    /\ LET r == resizeCanvas(file, modAge, fileName.paddingX, fileName.paddingY,
                             resizeX, resizeY)
       IN  /\ file' = r.file
           /\ modAge' = IF r.file # file THEN 0 ELSE modAge
           /\ hist' = Append(hist, [resizeX |-> resizeX, resizeY |-> resizeY,
                                    err |-> r.err.err])
    /\ UNCHANGED <<fileName, tOrig, tCount, modelVars, measureVars, createVars, importVars>>

Grow ==
    /\ hist = <<>>
    /\ \E resizeX \in 0..MaxDelta, resizeY \in 0..MaxDelta : ResizeCall(resizeX, resizeY)

Shrink ==
    /\ Len(hist) = 1
    /\ \E resizeX \in (-MaxDelta)..0, resizeY \in (-MaxDelta)..0 : ResizeCall(resizeX, resizeY)

NextResize == Grow \/ Shrink \/ Wait

SpecResize == InitResize /\ [][NextResize]_vars

\* the glyph grid GetPixels decodes from f2 is the one it decodes from f0
SameGlyphs(f0, f2, name) ==
    LET m0 == measureFile(f0, name.paddingX, name.paddingY)
        m2 == measureFile(f2, name.paddingX, name.paddingY)
    IN  /\ m2.err = "nil"
        /\ <<m2.charsX, m2.charsY>> = <<m0.charsX, m0.charsY>>
        /\ decodePixels(ImageOf(f2), m2) = decodePixels(ImageOf(f0), m0)

\* a successful resize by (+dx, +dy) followed by a successful one by (-dx, -dy)
GrownAndShrunkBack ==
    /\ Len(hist) = 2
    /\ hist[1].err = "nil" /\ hist[2].err = "nil"
    /\ hist[2].resizeX = -hist[1].resizeX /\ hist[2].resizeY = -hist[1].resizeY

\* C11: for every canvas and every dx, dy >= 0, a successful resize by
\* (+dx, +dy) followed by a successful resize by (-dx, -dy) gives a canvas
\* that measures with the original cell counts and decodes to the original
\* glyph in every cell.
C11_ResizeBack == GrownAndShrunkBack => SameGlyphs(tOrig, file, fileName)

\* The round trip holds whenever the final raster is measured in the layout
\* (cell size and mode) of the original canvas.
ResizeBackSameLayout ==
    (/\ GrownAndShrunkBack
     /\ LET m0 == measureFile(tOrig, fileName.paddingX, fileName.paddingY)
            m2 == measureFile(file, fileName.paddingX, fileName.paddingY)
        IN  m2.err = "nil" /\ m2.brailleW = m0.brailleW /\ m2.brailleH = m0.brailleH
                           /\ m2.isUnpadded = m0.isUnpadded)
    => SameGlyphs(tOrig, file, fileName)

(* ---------------------------------------------------------------------- *)
(* SpecCreate: the create-canvas form (model_create_canvas.go). The form   *)
(* field created is not a field of createCanvasModel: it records that      *)
(* createFile returned nil, after which Update returns tea.Quit. The file  *)
(* variable is what is stored at the path the form's file name denotes;    *)
(* the directory holds the same thing under every name the form can give.  *)
(* The created canvas can then be opened in the preview and toggled.       *)
(* ---------------------------------------------------------------------- *)
\* isWholeNumber, isValidPadding, isValidFileName (lines 110-150): the Err of
\* each input
isWholeNumber(n) == IF n <= 0 THEN "NotAWholeNumberError" ELSE "nil"
isValidPadding(n) == IF n < 0 THEN "NotAPositiveNumberError" ELSE "nil"
isValidFileName(s) == IF s = "" THEN "EmptyFileNameError" ELSE "nil"

inputErrs(inputs) ==
    <<isWholeNumber(inputs.brailleW), isWholeNumber(inputs.brailleH),
      isValidPadding(inputs.paddingX), isValidPadding(inputs.paddingY),
      isValidFileName(inputs.fileName)>>

\* the raster createFile builds (lines 436-480): transparent everywhere, then
\* each 2x4 block white or gray, alternating along a row of cells and between
\* the starts of consecutive rows
defaultPattern(imageWidth, imageHeight, paddingX, paddingY) ==
    LET stepX == paddingX + BRAILLE_WIDTH
        stepY == paddingY + BRAILLE_HEIGHT
    IN  [w |-> imageWidth, h |-> imageHeight,
         px |-> [p \in Coords(imageWidth, imageHeight) |->
                   IF p[1] % stepX < BRAILLE_WIDTH /\ p[2] % stepY < BRAILLE_HEIGHT
                   THEN IF ((p[1] \div stepX) + (p[2] \div stepY)) % 2 = 0
                        THEN colorWhite ELSE colorGray
                   ELSE colorTransparentPx]]

\* createCanvasModel.createFile (lines 407-486); created is the outcome of
\* os.Create, written that of the writes png.Encode makes
createFile(inputs, f, created, written) ==
    LET errs == inputErrs(inputs)
        imageWidth == inputs.brailleW * (inputs.paddingX + BRAILLE_WIDTH)
        imageHeight == inputs.brailleH * (inputs.paddingY + BRAILLE_HEIGHT)
        img == defaultPattern(imageWidth, imageHeight, inputs.paddingX, inputs.paddingY)
    IN  IF ~created THEN [err |-> "Error creating the file", file |-> f]
        ELSE IF \E i \in 1..5 : errs[i] # "nil"
        THEN [err |-> "Invalid input", file |-> EmptyFile]
        ELSE IF ~canEncode(img) \/ ~written THEN [err |-> "encodeError", file |-> EmptyFile]
        ELSE [err |-> "nil", file |-> PngFile(img)]

FormNames == {"", "art"}

InitCreate ==
    /\ MeasureIdle /\ ToggleIdle /\ ImportIdle
    /\ active = "create"
    /\ quit = FALSE
    /\ preview = [processError |-> nil, updateViewError |-> nil, paddingX |-> 0,
                  paddingY |-> 0, pixels |-> <<>>, unpadded |-> FALSE,
                  notifMessage |-> "", rOpts |-> NoResize]
    /\ writeSignal = <<>>
    /\ upd = IdleUpd
    /\ tick = IdleTick
    /\ msgs = <<>>
    /\ form = NoForm
    /\ fileName = [paddingX |-> NoForm.inputs.paddingX, paddingY |-> NoForm.inputs.paddingY]
    /\ file \in {MissingFile, PngFile(Canvas(FALSE, 0, 0, 1, 1, 1))}
    /\ modAge = OneSecond

FormOpen == active = "create" /\ ~quit

\* the text inputs' own Update (lines 390-392): a field receives what is typed
CreateType ==
    /\ FormOpen /\ ~form.showConfirmPrompt
    /\ \E brailleW \in 0..MaxCellsX, brailleH \in 0..MaxCellsY,
          paddingX \in (-1)..MaxPadding, paddingY \in (-1)..MaxPadding, name \in FormNames :
         /\ form' = [form EXCEPT !.inputs = [brailleW |-> brailleW, brailleH |-> brailleH,
                                             paddingX |-> paddingX, paddingY |-> paddingY,
                                             fileName |-> name]]
         /\ fileName' = [paddingX |-> paddingX, paddingY |-> paddingY]
    /\ UNCHANGED <<file, modAge, active, quit, preview, writeSignal, upd, tick, msgs,
                   measureVars, toggleVars, importVars>>

\* enter on the last input (lines 356-359)
CreateEnter ==
    /\ FormOpen /\ ~form.showConfirmPrompt
    /\ form' = [form EXCEPT !.showConfirmPrompt = TRUE]
    /\ UNCHANGED <<fileVars, active, quit, preview, writeSignal, upd, tick, msgs,
                   measureVars, toggleVars, importVars>>

\* a key while the confirm prompt is shown (lines 307-345)
CreateConfirmKey(k) ==
    /\ FormOpen /\ form.showConfirmPrompt
    /\ LET hasError == \E i \in 1..5 : inputErrs(form.inputs)[i] # "nil"
       IN  IF k = "esc"
           THEN quit' = TRUE /\ UNCHANGED <<form, file, modAge>>
           ELSE IF hasError \/ form.err # "nil"
           THEN /\ form' = [form EXCEPT !.showConfirmPrompt = FALSE, !.err = "nil"]
                /\ UNCHANGED <<quit, file, modAge>>
           ELSE IF k = "y"
           THEN \E created \in BOOLEAN, written \in BOOLEAN :
                  LET r == createFile(form.inputs, file, created, written)
                  IN  /\ file' = r.file
                      /\ modAge' = IF created THEN 0 ELSE modAge
                      /\ form' = [form EXCEPT !.err = r.err, !.created = (r.err = "nil")]
                      /\ quit' = (r.err = "nil")
           ELSE IF k = "b"
           THEN /\ form' = [form EXCEPT !.showConfirmPrompt = FALSE]
                /\ UNCHANGED <<quit, file, modAge>>
           ELSE quit' = TRUE /\ UNCHANGED <<form, file, modAge>>
    /\ UNCHANGED <<fileName, active, preview, writeSignal, upd, tick, msgs,
                   measureVars, toggleVars, importVars>>

CreateConfirm == \E k \in {"esc", "y", "b", "n"} : CreateConfirmKey(k)

\* the created canvas opened in the preview and toggled (key t)
CreatedToggle == form.created /\ Toggle

NextCreate == CreateType \/ CreateEnter \/ CreateConfirm \/ CreatedToggle \/ Wait

SpecCreate == InitCreate /\ [][NextCreate]_vars

\* C12: for all px, py >= 0, cell counts cx, cy >= 1 and both modes, the
\* default canvas of that geometry (padded: (cx*(2+px)) x (cy*(4+py)) pixels,
\* as the form creates it; unpadded: (2*cx+1) x (4*cy+1) pixels, as one toggle
\* of it gives) measures successfully with padding (px, py), with cell counts
\* (cx, cy) and the mode it was produced for.
C12_DefaultMeasuresAsRequested ==
    (form.created /\ tCount <= 1) =>
        LET in == form.inputs
            m == measureFile(file, in.paddingX, in.paddingY)
        IN  /\ <<file.w, file.h>> =
                   IF tCount = 0
                   THEN <<in.brailleW * (2 + in.paddingX), in.brailleH * (4 + in.paddingY)>>
                   ELSE <<2 * in.brailleW + 1, 4 * in.brailleH + 1>>
            /\ m.err = "nil"
            /\ <<m.charsX, m.charsY>> = <<in.brailleW, in.brailleH>>
            /\ m.isUnpadded = (tCount = 1)

\* The padded half of it: the canvas the form creates measures as padded with
\* the cell counts typed.
CreatedMeasuresPadded ==
    (form.created /\ tCount = 0) =>
        LET in == form.inputs
            m == measureFile(file, in.paddingX, in.paddingY)
        IN  /\ m.err = "nil" /\ ~m.isUnpadded
            /\ <<m.charsX, m.charsY>> = <<in.brailleW, in.brailleH>>

\* C20: create never overwrites: confirming the form for a path at which a
\* file exists fails with a refusal and leaves that file's content unchanged.
\* Until the form has created its canvas, no step changes a file that exists
\* at the destination or ends the form with a canvas created.
C20_CreateNeverOverwrites ==
    [][(~form.created /\ file.kind # "missing") => (file' = file /\ ~form'.created)]_vars

(* ---------------------------------------------------------------------- *)
(* SpecClean: cleanCanvas called up to twice on a canvas.                  *)
(* ---------------------------------------------------------------------- *)
MaxCleans == 2

\* cleanCanvas as one call (lines 371-454), no I/O failure
cleanCanvas(f, age, paddingX, paddingY, removeNonGrayscale) ==
    IF f.kind = "missing" THEN [err |-> decodeError("FileDoesNotExistError"), file |-> f]
    ELSE IF tooSoon(age) THEN [err |-> silentError, file |-> f]
    ELSE LET m == measureFile(f, paddingX, paddingY)
         IN  IF m.err # "nil" THEN [err |-> m, file |-> f]
             ELSE IF f.kind # "png" THEN [err |-> decodeError("png"), file |-> f]
             ELSE LET newImage == cleanImage(ImageOf(f), m, paddingX, paddingY,
                                             removeNonGrayscale)
                  IN  IF canEncode(newImage)
                      THEN [err |-> nil, file |-> PngFile(newImage)]
                      ELSE [err |-> encodeError, file |-> EmptyFile]

InitClean ==
    /\ ModelIdle /\ MeasureIdle /\ CreateIdle /\ ImportIdle
    /\ fileName \in [paddingX : 0..MaxPadding, paddingY : 0..MaxPadding]
    /\ \E unpadded \in BOOLEAN, charsX \in 1..MaxCellsX, charsY \in 1..MaxCellsY,
          seed \in 0..MaxSeed :
         file = PngFile(Canvas(unpadded, fileName.paddingX, fileName.paddingY,
                               charsX, charsY, seed))
    /\ modAge \in {0, OneSecond}
    /\ tOrig = file
    /\ tCount = 0
    /\ hist = <<>>

\* keys c and C of the preview (lines 712-745)
CleanCall ==
    /\ Len(hist) < MaxCleans
    /\ \E removeNonGrayscale \in BOOLEAN :
         LET r == cleanCanvas(file, modAge, fileName.paddingX, fileName.paddingY,
                              removeNonGrayscale)
         IN  /\ file' = r.file
             /\ modAge' = IF r.err.err \in {"nil", "encodeError"} THEN 0 ELSE modAge
             /\ hist' = IF r.err.err = "silentError" THEN hist
                        ELSE Append(hist, [removeNonGrayscale |-> removeNonGrayscale,
                                           err |-> r.err.err, file |-> r.file])
    /\ UNCHANGED <<fileName, tOrig, tCount, modelVars, measureVars, createVars, importVars>>

NextClean == CleanCall \/ Wait

SpecClean == InitClean /\ [][NextClean]_vars

\* the glyph grid GetPixels decodes from f
GridOf(f, name) == decodePixels(ImageOf(f), measureFile(f, name.paddingX, name.paddingY))

CleanedTwice ==
    /\ Len(hist) = 2
    /\ hist[1].err = "nil" /\ hist[2].err = "nil"
    /\ hist[1].removeNonGrayscale = hist[2].removeNonGrayscale

\* C13: clean is idempotent: for every canvas and either setting of the
\* comment-removal flag, a second successful clean with the same flag gives a
\* raster that decodes to the glyph grid decoded after the first clean.
C13_CleanIdempotent ==
    CleanedTwice =>
        /\ measureFile(file, fileName.paddingX, fileName.paddingY).err = "nil"
        /\ GridOf(file, fileName) = GridOf(hist[1].file, fileName)

\* cleaned twice with comment removal, where the first clean changed the
\* raster of a canvas that has a shaded dot and a comment sample
C13_Witness ==
    /\ CleanedTwice /\ hist[1].removeNonGrayscale
    /\ hist[1].file # tOrig
    /\ LET m == measureFile(tOrig, fileName.paddingX, fileName.paddingY)
       IN  /\ \E i \in 0..7 : CellClasses(ImageOf(tOrig), m, 0, 0)[i] = "colorShaded"
           /\ \E i \in 0..7 : CellClasses(ImageOf(tOrig), m, 0, 0)[i] = "colorNonGrayscale"

(* ---------------------------------------------------------------------- *)
(* SpecImport: text import and export. A text file is a sequence of runes  *)
(* (code points). The run starts either from a text file the user wrote or *)
(* from a glyph grid that the preview exports; the text is imported, the   *)
(* import form writes the canvas, and the preview decodes it.              *)
(* ---------------------------------------------------------------------- *)
MaxTextLen == 4     \* runes in a text file the user wrote
MaxGridW == 2       \* size of an exported grid
MaxGridH == 2
MaxGlyphSeed == 255 \* the glyph of the grid's first cell has this dot mask at most

NewLine == 10
Space == 32
LetterX == 120
BlankGlyph == 10240
\* stands for a run of braille glyphs of more than bufio.MaxScanTokenSize
\* bytes (64 KiB) without a line break
LongRun == -1

isBraille(r) == r >= 10240 /\ r <= 10495

\* brailleReverseLookup maps a glyph to its dot mask, the index of the glyph
\* in brailleLookup; a rune that is no key of the map gives the zero value
brailleReverseLookup(r) ==
    LET u == r - 10240
    IN  IF isBraille(r)
        THEN Bit(u, 0) + 2 * Bit(u, 3) + 4 * Bit(u, 1) + 8 * Bit(u, 4) + 16 * Bit(u, 2)
             + 32 * Bit(u, 5) + 64 * Bit(u, 6) + 128 * Bit(u, 7)
        ELSE 0

\* bufio.Scanner with ScanLines over the text from position i on: cur is the
\* line being read, acc the lines returned so far. A line longer than the
\* scanner's buffer ends the scan with an error; an empty last line is not a
\* line.
RECURSIVE scanLines(_, _, _, _)
scanLines(text, i, cur, acc) ==
    IF i > Len(text)
    THEN IF cur = <<>> THEN [lines |-> acc, err |-> "nil"]
         ELSE IF \E k \in 1..Len(cur) : cur[k] = LongRun
         THEN [lines |-> acc, err |-> "bufio.Scanner: token too long"]
         ELSE [lines |-> Append(acc, cur), err |-> "nil"]
    ELSE IF text[i] = NewLine
    THEN IF \E k \in 1..Len(cur) : cur[k] = LongRun
         THEN [lines |-> acc, err |-> "bufio.Scanner: token too long"]
         ELSE scanLines(text, i + 1, <<>>, Append(acc, cur))
    ELSE scanLines(text, i + 1, Append(cur, text[i]), acc)

\* the strings.Map callback (part_000, lines 150-160)
keepRune(r) == isBraille(r) \/ r = Space

RECURSIVE maxLenOf(_, _)
maxLenOf(pixels, i) ==
    IF i > Len(pixels) THEN -1 ELSE Max2(Len(pixels[i]), maxLenOf(pixels, i + 1))

\* importPixelData (part_000, lines 143-196). The last loop appends the fill
\* glyphs to its own variable line, a copy of the slice header pixels[i]; the
\* rows of pixels keep their lengths.
importPixelData(text) ==
    LET scan == scanLines(text, 1, <<>>, <<>>)
        pixels == [i \in 1..Len(scan.lines) |-> SelectSeq(scan.lines[i], keepRune)]
        maxLen == maxLenOf(pixels, 1)
        linesAreEmpty == \A i \in 1..Len(pixels) : Len(pixels[i]) = 0
        line(i) == pixels[i] \o [k \in 1..(maxLen - Len(pixels[i])) |-> BlankGlyph]
    IN  IF scan.err # "nil" THEN [err |-> scan.err, pixels |-> <<>>]
        ELSE IF Len(pixels) = 0 THEN [err |-> "No data received.", pixels |-> <<>>]
        ELSE IF linesAreEmpty THEN [err |-> "No data received.", pixels |-> <<>>]
        ELSE [err |-> "nil", pixels |-> pixels]

\* mutant: the path is not looked up before the text is written
exportBraille_noStat(exists, pixels) ==
    LET RECURSIVE rest(_)
        rest(i) == IF i > Len(pixels) THEN <<>>
                   ELSE <<NewLine>> \o pixels[i] \o rest(i + 1)
    IN  IF pixels = <<>> THEN [err |-> "index out of range", text |-> <<>>]
        ELSE [err |-> "nil", text |-> pixels[1] \o rest(2)]

\* exportBraille (model_preview_art.go, lines 832-856): the text written; a nil
\* pixels panics at pixels[0]
exportBraille(exists, pixels) ==
    LET RECURSIVE rest(_)
        rest(i) == IF i > Len(pixels) THEN <<>>
                   ELSE <<NewLine>> \o pixels[i] \o rest(i + 1)
    IN  IF exists THEN [err |-> "File already exists.", text |-> <<>>]
        ELSE IF pixels = <<>> THEN [err |-> "index out of range", text |-> <<>>]
        ELSE [err |-> "nil", text |-> pixels[1] \o rest(2)]

\* mutant: the dots are numbered down the columns
bitsIdx_columnMajor(brailleXOff, brailleYOff) == brailleXOff * BRAILLE_HEIGHT + brailleYOff

\* part_001, line 640
bitsIdx(brailleXOff, brailleYOff) == brailleYOff * BRAILLE_WIDTH + brailleXOff

\* importCanvasModel.createFile (part_001, lines 589-658) for valid inputs and
\* no I/O failure: the raster written. brailleBits[i] is bit i of the mask.
importImage(pixels, paddingX, paddingY) ==
    LET charsX == Len(pixels[1])
        charsY == Len(pixels)
        imageWidth == charsX * (paddingX + BRAILLE_WIDTH)
        imageHeight == charsY * (paddingY + BRAILLE_HEIGHT)
        img == newCanvasImage(imageWidth, imageHeight, paddingX, paddingY, FALSE)
        isSet(p) ==
            LET charX == p[1] \div (BRAILLE_WIDTH + paddingX)
                charY == p[2] \div (BRAILLE_HEIGHT + paddingY)
                brailleXOff == p[1] % (BRAILLE_WIDTH + paddingX)
                brailleYOff == p[2] % (BRAILLE_HEIGHT + paddingY)
            IN  /\ brailleXOff < BRAILLE_WIDTH /\ brailleYOff < BRAILLE_HEIGHT
                /\ charY < Len(pixels) /\ charX < Len(pixels[charY + 1])
                /\ Bit(brailleReverseLookup(pixels[charY + 1][charX + 1]),
                       bitsIdx(brailleXOff, brailleYOff)) = 1
    IN  [img EXCEPT !.px = [p \in Coords(imageWidth, imageHeight) |->
              IF isSet(p) THEN colorBlack ELSE img.px[p]]]

importCreateFile(pixels, f, paddingX, paddingY) ==
    IF f.kind # "missing" THEN [err |-> "File already exists.", file |-> f]
    ELSE LET img == importImage(pixels, paddingX, paddingY)
         IN  IF canEncode(img) THEN [err |-> "nil", file |-> PngFile(img)]
             ELSE [err |-> "encodeError", file |-> EmptyFile]

TextRunes == {BlankGlyph, BlankGlyph + 1, Space, LetterX, NewLine, LongRun}
Texts == UNION {[1..n -> TextRunes] : n \in 0..MaxTextLen}

\* a grid of braille glyphs of the given size; seed is the dot mask of its
\* first cell
Grid(w, h, seed) ==
    [charY \in 1..h |-> [charX \in 1..w |->
        brailleLookup((seed * (1 + 2 * (charX - 1) + 5 * (charY - 1))) % 256)]]

\* the grid of a canvas of more than 21845 cells per row: a row of it is more
\* than 64 KiB of text
WideGrid(h) == [charY \in 1..h |-> <<LongRun>>]

InitImport ==
    /\ ModelIdle /\ MeasureIdle /\ ToggleIdle /\ CreateIdle
    /\ fileName \in [paddingX : 0..MaxPadding, paddingY : 0..MaxPadding]
    /\ file = MissingFile
    /\ modAge = 0
    /\ \/ \E text \in Texts :
            imp = [NoImport EXCEPT !.text = text, !.textExists = TRUE]
       \/ \E w \in 1..MaxGridW, h \in 1..MaxGridH, seed \in 0..MaxGlyphSeed :
            imp = [NoImport EXCEPT !.grid = Grid(w, h, seed)]
       \/ \E h \in 1..MaxGridH : imp = [NoImport EXCEPT !.grid = WideGrid(h)]
    /\ exp = NoExport

\* the preview's export mode, confirmed (model_preview_art.go, lines 578-590)
Export ==
    /\ imp.grid # <<>> /\ imp.res = Pending
    /\ LET r == exportBraille(imp.textExists, imp.grid)
       IN  imp' = IF r.err = "nil"
                  THEN [imp EXCEPT !.text = r.text, !.textExists = TRUE]
                  ELSE imp
    /\ UNCHANGED <<exp, fileVars, modelVars, measureVars, toggleVars, createVars>>

\* the start menu imports the picked text file (part_000, lines 83-99)
Import ==
    /\ imp.textExists /\ imp.res = Pending
    /\ imp' = [imp EXCEPT !.res = importPixelData(imp.text)]
    /\ UNCHANGED <<exp, fileVars, modelVars, measureVars, toggleVars, createVars>>

\* the import form, confirmed (part_001)
ImportCreate ==
    /\ imp.res # Pending /\ imp.res.err = "nil" /\ imp.createErr = "pending"
    /\ LET r == importCreateFile(imp.res.pixels, file, fileName.paddingX, fileName.paddingY)
       IN  /\ file' = r.file
           /\ imp' = [imp EXCEPT !.createErr = r.err]
    /\ UNCHANGED <<exp, modAge, fileName, modelVars, measureVars, toggleVars, createVars>>

\* the canvas written is opened in the preview
ImportDecode ==
    /\ imp.createErr # "pending" /\ imp.decoded = Pending
    /\ imp' = [imp EXCEPT !.decoded = GetPixels(file, fileName)]
    /\ UNCHANGED <<exp, fileVars, modelVars, measureVars, toggleVars, createVars>>

NextImport == Export \/ Import \/ ImportCreate \/ ImportDecode

SpecImport == InitImport /\ [][NextImport]_vars

(* ---------------------------------------------------------------------- *)
(* Claims on import and export (SpecImport)                                *)
(* ---------------------------------------------------------------------- *)
\* the lines of a text as a reader with no limit on a line's length sees them
RECURSIVE textLines(_, _, _, _)
textLines(text, i, cur, acc) ==
    IF i > Len(text) THEN IF cur = <<>> THEN acc ELSE Append(acc, cur)
    ELSE IF text[i] = NewLine THEN textLines(text, i + 1, <<>>, Append(acc, cur))
    ELSE textLines(text, i + 1, Append(cur, text[i]), acc)

isGlyphOrSpace(r) == isBraille(r) \/ r = Space \/ r = LongRun

\* the lines of the imported text after dropping what is neither glyph nor space
FilteredLines ==
    LET lines == textLines(imp.text, 1, <<>>, <<>>)
    IN  [i \in 1..Len(lines) |-> SelectSeq(lines[i], isGlyphOrSpace)]

HasLongLine == \E k \in 1..Len(imp.text) : imp.text[k] = LongRun

NothingToImport ==
    \/ Len(FilteredLines) = 0
    \/ \A i \in 1..Len(FilteredLines) : Len(FilteredLines[i]) = 0

Exported == imp.grid # <<>>
Imported == imp.res # Pending

\* C14: for every rectangular grid G of braille glyphs with at least one row
\* and one column, importing the text that export writes for G yields
\* exactly G.
C14_ImportOfExport ==
    (Exported /\ Imported) => (imp.res.err = "nil" /\ imp.res.pixels = imp.grid)

\* The round trip holds for the grids whose rows fit the scanner's buffer.
ImportOfExportShortRows ==
    (Exported /\ Imported /\ ~HasLongLine) =>
        (imp.res.err = "nil" /\ imp.res.pixels = imp.grid)

\* a grid of two rows and two columns with four different glyphs, one of them
\* the blank one, has been exported and imported
ExportedAndImported ==
    /\ Exported /\ Imported /\ imp.res.err = "nil"
    /\ Len(imp.grid) = 2 /\ Len(imp.grid[1]) = 2
    /\ imp.grid[1][1] # BlankGlyph /\ imp.grid[2][2] = BlankGlyph
    /\ Cardinality({imp.grid[y][x] : x \in 1..2, y \in 1..2}) = 4

\* the dot mask read off the shaded samples of cell (charX, charY) of the
\* written raster, the dot at (column, row) counted as bit 2*row + column
ShadedMask(charX, charY) ==
    LET dot(column, row) ==
            IF shadeType(At(ImageOf(file),
                            charX * (2 + fileName.paddingX) + column,
                            charY * (4 + fileName.paddingY) + row)) = "colorShaded"
            THEN 2 ^ (2 * row + column) ELSE 0
    IN  dot(0, 0) + dot(1, 0) + dot(0, 1) + dot(1, 1)
        + dot(0, 2) + dot(1, 2) + dot(0, 3) + dot(1, 3)

\* C15: import and decode use the same dot-to-bit order: for every
\* rectangular braille glyph grid G and every padding spec, decoding the
\* raster that import writes for G returns G, and in that raster the dot at
\* (column, row) of a cell is shaded exactly when bit 2*row + column of the
\* glyph's dot mask is set.
C15_DecodeOfImport ==
    (Exported /\ imp.decoded # Pending) =>
        /\ imp.createErr = "nil"
        /\ imp.decoded.err = nil
        /\ imp.decoded.pixels = imp.grid
        /\ \A charY \in 1..Len(imp.grid) : \A charX \in 1..Len(imp.grid[charY]) :
             /\ ShadedMask(charX - 1, charY - 1) = brailleReverseLookup(imp.grid[charY][charX])
             /\ imp.decoded.pixels[charY][charX] = brailleLookup(ShadedMask(charX - 1, charY - 1))

\* a grid of several cells whose first glyph is U+2808, the dot at column 1,
\* row 0 alone, has been written with padding on both axes and decoded
C15_Witness ==
    /\ Exported /\ imp.decoded # Pending /\ imp.decoded.err = nil
    /\ fileName.paddingX > 0 /\ fileName.paddingY > 0
    /\ Len(imp.grid) = 2 /\ Len(imp.grid[1]) = 2
    /\ imp.grid[1][1] = 10248
    /\ ShadedMask(0, 0) = 2

\* C18: whenever importPixelData succeeds the grid is rectangular: every row
\* has the length of the longest filtered line, the rows of shorter lines
\* being filled on the right with U+2800.
C18_ImportRectangular ==
    (Imported /\ imp.res.err = "nil") =>
        LET pixels == imp.res.pixels
            longest == maxLenOf(FilteredLines, 1)
        IN  /\ Len(pixels) = Len(FilteredLines)
            /\ \A i \in 1..Len(pixels) :
                 /\ Len(pixels[i]) = longest
                 /\ \A k \in 1..longest :
                      pixels[i][k] = IF k <= Len(FilteredLines[i])
                                     THEN FilteredLines[i][k] ELSE BlankGlyph

\* Each row of a successful import is its filtered line.
ImportKeepsLines ==
    (Imported /\ imp.res.err = "nil") => imp.res.pixels = FilteredLines

\* C19 as stated: import fails, returning no grid, when the input has zero
\* lines or every line is empty after filtering, and succeeds in every other
\* case.
C19_FailsOnlyWhenEmpty ==
    Imported => /\ (imp.res.err # "nil") <=> NothingToImport
                /\ imp.res.err # "nil" => imp.res.pixels = <<>>

\* Import fails, returning no grid, when the input has zero lines, when
\* every line is empty after filtering, or when the scanner reports an error
\* (a line longer than its 64 KiB buffer); it succeeds in every other case.
ImportFailsWhenEmptyOrUnreadable ==
    Imported => /\ (imp.res.err # "nil") <=> (NothingToImport \/ HasLongLine)
                /\ imp.res.err # "nil" => imp.res.pixels = <<>>

\* a text of two lines that hold only characters the filter drops has been
\* refused
RefusedAsEmpty ==
    /\ Imported /\ imp.res.err = "No data received."
    /\ Len(FilteredLines) = 2
    /\ \E k \in 1..Len(imp.text) : imp.text[k] = LetterX

(* ---------------------------------------------------------------------- *)
(* SpecExport: the preview's export mode. imp.grid is m.pixels, exp.files  *)
(* the text files on disk, exp.key the key Update handled last.            *)
(* ---------------------------------------------------------------------- *)
\* os.WriteFile (line 850): the text is written, or the file cannot be
\* opened, or it is created and the write stops short
WriteOutcomes == {"written", "not opened", "cut short"}

\* a processError left by the resize mode (lines 617-621), which esc does not clear
StaleError == InvalidImgDimensionE(1, BRAILLE_WIDTH, TRUE, FALSE)

InitExport ==
    /\ ModelIdle /\ FileIdle /\ MeasureIdle /\ ToggleIdle /\ CreateIdle
    /\ \/ imp = NoImport
       \/ \E w \in 1..MaxGridW, h \in 1..MaxGridH, seed \in 0..MaxSeed :
            imp = [NoImport EXCEPT !.grid = Grid(w, h, seed)]
    /\ \E taken \in SUBSET (Paths \ {""}), e \in {nil, StaleError} :
         exp = [NoExport EXCEPT
                  !.processError = e,
                  !.files = [p \in Paths |-> IF p \in taken
                                             THEN [exists |-> TRUE, text |-> <<LetterX>>]
                                             ELSE NoText]]

ExportFrame == UNCHANGED <<imp, fileVars, modelVars, measureVars, toggleVars, createVars>>

\* what View renders (lines 964-1014)
ExportView ==
    IF ~exp.exporting THEN "preview"
    ELSE IF exp.processError # nil THEN "export failed"
    ELSE IF exp.showConfirmPrompt THEN "confirm" ELSE "file name"

\* key e outside the modes (lines 706-711)
ExportOpen ==
    /\ ~exp.crashed /\ ~exp.exporting
    /\ exp' = [exp EXCEPT !.exporting = TRUE, !.input = "", !.key = "e"]
    /\ ExportFrame

\* esc (lines 515-531)
ExportEsc ==
    /\ ~exp.crashed /\ exp.exporting
    /\ exp' = IF exp.showConfirmPrompt
              THEN [exp EXCEPT !.showConfirmPrompt = FALSE, !.processError = nil, !.key = "esc"]
              ELSE [exp EXCEPT !.exporting = FALSE, !.key = "esc"]
    /\ ExportFrame

\* any other key while an error is shown (lines 549-563)
ExportDismiss ==
    /\ ~exp.crashed /\ exp.exporting /\ exp.processError # nil
    /\ \E k \in {"enter", "y", "b", "x"} :
         exp' = IF exp.showConfirmPrompt
                THEN [exp EXCEPT !.showConfirmPrompt = FALSE, !.processError = nil, !.key = k]
                ELSE [exp EXCEPT !.key = k]
    /\ ExportFrame

\* enter on the file name (lines 566-574)
ExportEnter ==
    /\ ~exp.crashed /\ exp.exporting /\ exp.processError = nil /\ ~exp.showConfirmPrompt
    /\ exp' = [exp EXCEPT !.showConfirmPrompt = TRUE, !.key = "enter"]
    /\ ExportFrame

\* y or enter on the confirm prompt (lines 576-592)
ExportConfirm ==
    /\ ~exp.crashed /\ exp.exporting /\ exp.processError = nil /\ exp.showConfirmPrompt
    /\ \E k \in {"y", "enter"}, o \in WriteOutcomes :
         LET path == exp.input
             r == exportBraille(exp.files[path].exists, imp.grid)
             failed == [err |-> "Error writing to the file"]
         IN  /\ path = "" => o = "not opened"
             /\ exp' =
                  IF r.err = "index out of range"
                  THEN [exp EXCEPT !.crashed = TRUE, !.key = k]
                  ELSE IF r.err # "nil"
                  THEN [exp EXCEPT !.processError = [err |-> r.err], !.key = k]
                  ELSE IF o = "not opened"
                  THEN [exp EXCEPT !.processError = failed, !.key = k]
                  ELSE IF o = "cut short"
                  THEN [exp EXCEPT !.processError = failed, !.key = k,
                                   !.files[path] = [exists |-> TRUE, text |-> <<>>]]
                  ELSE [exp EXCEPT !.notifMessage = "finished exporting to file!",
                                   !.exporting = FALSE, !.showConfirmPrompt = FALSE,
                                   !.key = k,
                                   !.files[path] = [exists |-> TRUE, text |-> r.text]]
    /\ ExportFrame

\* b on the confirm prompt (lines 593-597)
ExportBack ==
    /\ ~exp.crashed /\ exp.exporting /\ exp.processError = nil /\ exp.showConfirmPrompt
    /\ exp' = [exp EXCEPT !.showConfirmPrompt = FALSE, !.key = "b"]
    /\ ExportFrame

\* any other key goes to the text input (lines 601-606); the keys typed one
\* after the other leave one of the paths in the field
ExportType ==
    /\ ~exp.crashed /\ exp.exporting /\ exp.processError = nil
    /\ \E path \in Paths : exp' = [exp EXCEPT !.input = path, !.key = "x"]
    /\ ExportFrame

NextExport ==
    \/ ExportOpen \/ ExportEsc \/ ExportDismiss \/ ExportEnter
    \/ ExportConfirm \/ ExportBack \/ ExportType

SpecExport == InitExport /\ [][NextExport]_vars

\* Update has just handled y or enter on the confirm prompt for a path that exists
ConfirmedOnExisting ==
    /\ exp.exporting /\ exp.processError = nil /\ exp.showConfirmPrompt
    /\ exp.files[exp.input].exists
    /\ exp'.key \in {"y", "enter"}

\* C21: export never overwrites: no step changes a text file that exists, and
\* confirming the export to a path that exists writes nothing, leaves the
\* preview in the export mode and has it show the error exportBraille returned
C21_ExportNeverOverwrites ==
    [][/\ \A p \in Paths : exp.files[p].exists => exp'.files[p] = exp.files[p]
       /\ ConfirmedOnExisting =>
            /\ exp'.files = exp.files
            /\ exp'.exporting
            /\ exp'.processError = [err |-> "File already exists."]
            /\ ExportView' = "export failed"]_vars

C21_Witness ==
    /\ exp.exporting /\ exp.key \in {"y", "enter"}
    /\ exp.processError = [err |-> "File already exists."]
    /\ exp.files[exp.input] = [exists |-> TRUE, text |-> <<LetterX>>]

(* ---------------------------------------------------------------------- *)
(* SpecResizeMode: the keys of the resize mode, one Update after the       *)
(* other, each confirmed resize run to its end before the next key. hist   *)
(* logs the confirmed resizes: the deltas, the cell counts resizeCanvas    *)
(* measured and the cell counts of the file it left.                       *)
(* ---------------------------------------------------------------------- *)
MaxConfirms == 2    \* presses of enter in the resize mode

\* canvases of one or two cells per axis, and rasters of one pixel on an
\* axis, which measure as unpadded canvases with no cell on that axis
ResizeModeFiles(name) ==
    {PngFile(Canvas(u, name.paddingX, name.paddingY, charsX, charsY, 1)) :
        u \in BOOLEAN, charsX \in 1..MaxChars, charsY \in 1..MaxChars}
    \cup {PngFile(NewNRGBA(1, 1)), PngFile(NewNRGBA(1, 5)), PngFile(NewNRGBA(3, 1))}

InitResizeMode ==
    /\ MeasureIdle /\ CreateIdle /\ ImportIdle
    /\ fileName \in {[paddingX |-> 0, paddingY |-> 0], [paddingX |-> 1, paddingY |-> 0]}
    /\ file \in ResizeModeFiles(fileName)
    /\ modAge = 0
    /\ active = "preview"
    /\ quit = FALSE
    /\ writeSignal = <<>>
    /\ LET pixelData == GetPixels(file, fileName)
       IN  preview = [processError |-> nil, updateViewError |-> pixelData.err,
                      paddingX |-> pixelData.paddingX, paddingY |-> pixelData.paddingY,
                      pixels |-> pixelData.pixels, unpadded |-> pixelData.unpadded,
                      notifMessage |-> "", rOpts |-> NoResize]
    /\ upd = IdleUpd
    /\ tick = IdleTick
    /\ msgs = <<>>
    /\ tOrig = file
    /\ tCount = 0
    /\ hist = <<>>

ModeFrame == UNCHANGED <<measureVars, createVars, importVars, fileName, tOrig, writeSignal, upd>>

\* key r outside the modes (lines 702-704)
ModeOpen ==
    /\ Running /\ ~preview.rOpts.resizing
    /\ MainKey("r")
    /\ UNCHANGED <<file, modAge, active, quit, tick, msgs, tCount, hist>>
    /\ ModeFrame

\* esc in the resize mode (lines 515-519)
ModeEsc ==
    /\ Running /\ preview.rOpts.resizing
    /\ preview' = [preview EXCEPT !.rOpts.resizing = FALSE]
    /\ UNCHANGED <<file, modAge, active, quit, tick, msgs, tCount, hist>>
    /\ ModeFrame

\* a key of the resize mode other than enter (lines 611-642, 667-673)
ModeKey ==
    /\ Running /\ preview.rOpts.resizing
    /\ \E k \in {"+", "-", "tab", "c", "t"} : ResizeKey(k)
    /\ UNCHANGED <<file, modAge, active, quit, tick, msgs, tCount, hist>>
    /\ ModeFrame

\* enter in the resize mode (lines 617-627, 643-665), resizeCanvas included;
\* os.Create or png.Encode may fail
ModeEnter ==
    /\ Running /\ preview.rOpts.resizing /\ tCount < MaxConfirms
    /\ LET opts == preview.rOpts
           measure == measureFile(file, preview.paddingX, preview.paddingY)
           idle == UNCHANGED <<file, modAge, active, tCount, hist>>
       IN  IF measure.err # "nil"
           THEN preview' = [preview EXCEPT !.processError = measure] /\ idle
           ELSE IF preview.processError.err # "nil"
           THEN UNCHANGED preview /\ idle
           ELSE \E io \in {"ok", "create fails", "encode fails"} :
                  LET resizeX == opts.inputs[1]
                      resizeY == opts.inputs[2]
                      call == resizeCanvas(file, modAge, preview.paddingX, preview.paddingY,
                                           resizeX, resizeY)
                      writes == call.file # file \/ (call.err = nil /\ (resizeX # 0 \/ resizeY # 0))
                      r == IF ~writes \/ io = "ok" THEN call
                           ELSE IF io = "create fails" THEN [err |-> createError, file |-> file]
                           ELSE [err |-> encodeError, file |-> EmptyFile]
                      h == handleResult(preview, WriteOp("resize", resizeX, resizeY, FALSE), r.err)
                      after == measureFile(r.file, preview.paddingX, preview.paddingY)
                  IN  /\ file' = r.file
                      /\ modAge' = IF writes /\ io # "create fails" THEN 0 ELSE modAge
                      /\ preview' = h.preview
                      /\ active' = h.active
                      /\ tCount' = tCount + 1
                      /\ hist' = Append(hist,
                             [resizeX |-> resizeX, resizeY |-> resizeY,
                              charsX |-> measure.charsX, charsY |-> measure.charsY,
                              err |-> r.err.err,
                              after |-> IF after.err = "nil"
                                        THEN <<after.charsX, after.charsY>> ELSE <<>>])
    /\ UNCHANGED <<quit, tick, msgs>>
    /\ ModeFrame

\* the poll reads the file (lines 150-159)
ModePoll ==
    /\ Running /\ msgs = <<>>
    /\ LET pixelData == GetPixels(file, fileName)
       IN  msgs' = <<[err |-> pixelData.err, pixels |-> pixelData.pixels]>>
    /\ UNCHANGED <<file, modAge, active, quit, preview, tick, tCount, hist>>
    /\ ModeFrame

\* Update for the updatePreviewMsg
ModeUpdatePoll ==
    /\ UpdatePoll
    /\ UNCHANGED <<measureVars, toggleVars, createVars, importVars>>

\* panicMsgModel.Update
ModePanic ==
    /\ PanicUpdate
    /\ UNCHANGED <<measureVars, toggleVars, createVars, importVars>>

NextResizeMode ==
    \/ ModeOpen \/ ModeEsc \/ ModeKey \/ ModeEnter \/ ModePoll \/ ModeUpdatePoll
    \/ ModePanic \/ Wait

SpecResizeMode == InitResizeMode /\ [][NextResizeMode]_vars

\* the confirmed resizes that resizeCanvas applied: a delta on some axis, and
\* the call got as far as the new raster
AppliedResizes ==
    {i \in 1..Len(hist) : /\ hist[i].resizeX # 0 \/ hist[i].resizeY # 0
                          /\ hist[i].err \in {"nil", "createError", "encodeError"}}

\* C22: whatever keys are pressed in the resize mode, the deltas a confirmed
\* resize applies leave at least one cell on each axis, and the canvas a
\* successful resize writes measures with at least one cell on each axis
C22_AtLeastOneCell ==
    \A i \in AppliedResizes :
        /\ hist[i].charsX + hist[i].resizeX >= 1
        /\ hist[i].charsY + hist[i].resizeY >= 1
        /\ hist[i].err = "nil" =>
             /\ hist[i].after # <<>>
             /\ hist[i].after[1] >= 1 /\ hist[i].after[2] >= 1

\* a canvas of one cell on an axis, the minus key pressed on that axis, and
\* the resize confirmed and applied
C22_Witness ==
    \E i \in AppliedResizes :
        /\ hist[i].err = "nil"
        /\ hist[i].charsX = 1 /\ hist[i].resizeX = 0
        /\ hist[i].charsY = 2 /\ hist[i].resizeY = -1

\* Update has just handled enter in the resize mode with both inputs zero
ZeroResizeConfirmed ==
    /\ tCount' = tCount + 1
    /\ hist'[Len(hist')].resizeX = 0 /\ hist'[Len(hist')].resizeY = 0

\* C23: a resize with deltas (0,0) is a no-op: it returns success, the file's
\* content and modification time are what they were, and no notification is
\* shown; the preview stays the running model
C23_ZeroResizeNoOp ==
    [][ZeroResizeConfirmed =>
          /\ hist'[Len(hist')].err = "nil"
          /\ file' = file /\ modAge' = modAge
          /\ preview'.notifMessage = preview.notifMessage
          /\ preview'.processError = nil
          /\ active' = "preview"]_vars

C23_Witness ==
    /\ Len(hist) = 1
    /\ hist[1].resizeX = 0 /\ hist[1].resizeY = 0 /\ hist[1].err = "nil"
    /\ file = tOrig /\ modAge = 0
    /\ preview.notifMessage = "" /\ ~preview.rOpts.resizing

(* ---------------------------------------------------------------------- *)
(* Claims on the samples a clean writes (SpecClean)                        *)
(* ---------------------------------------------------------------------- *)
\* the measurement of the canvas before the first clean
CleanMeasure == measureFile(tOrig, fileName.paddingX, fileName.paddingY)

\* the dot samples: the 2x4 block at the origin of every cell
DotSamples ==
    LET m == CleanMeasure
    IN  {p \in Coords(m.charsX * m.brailleW, m.charsY * m.brailleH) :
            p[1] % m.brailleW < BRAILLE_WIDTH /\ p[2] % m.brailleH < BRAILLE_HEIGHT}

\* the class of a sample before the first clean
ClassBefore(p) == shadeType(tOrig.px[p])

\* the default pattern for the canvas
CleanDefault ==
    LET m == CleanMeasure
    IN  newCanvasImage(m.imageWidth, m.imageHeight, fileName.paddingX, fileName.paddingY,
                       m.isUnpadded)

FirstCleanDone == Len(hist) >= 1 /\ hist[1].err = "nil"

\* C24: after a successful clean, a dot sample that was classified shaded is
\* the ink colour; one that was classified transparent or unshaded has the
\* default pattern's colour for its position; and with comment removal one
\* that was classified non-grayscale has the default pattern's colour too
C24_CleanSamples ==
    FirstCleanDone =>
        \A p \in DotSamples :
            /\ ClassBefore(p) = "colorShaded" => hist[1].file.px[p] = colorBlack
            /\ ClassBefore(p) \in {"colorTransparent", "colorNonShaded"} =>
                   hist[1].file.px[p] = CleanDefault.px[p]
            /\ (hist[1].removeNonGrayscale /\ ClassBefore(p) = "colorNonGrayscale") =>
                   hist[1].file.px[p] = CleanDefault.px[p]

\* a clean that met a sample of each class and changed one of each
C24_Witness ==
    /\ FirstCleanDone /\ hist[1].removeNonGrayscale
    /\ \A c \in {"colorShaded", "colorTransparent", "colorNonShaded", "colorNonGrayscale"} :
         \E p \in DotSamples : ClassBefore(p) = c /\ hist[1].file.px[p] # tOrig.px[p]

\* C25: a clean without comment removal leaves every dot sample that was
\* classified non-grayscale with the RGBA value it had before the clean
C25_CommentsSurvive ==
    (FirstCleanDone /\ ~hist[1].removeNonGrayscale) =>
        \A p \in DotSamples :
            ClassBefore(p) = "colorNonGrayscale" => hist[1].file.px[p] = tOrig.px[p]

\* a clean without comment removal that changed some sample and met a
\* non-grayscale one
C25_Witness ==
    /\ FirstCleanDone /\ ~hist[1].removeNonGrayscale
    /\ hist[1].file # tOrig
    /\ \E p \in DotSamples : ClassBefore(p) = "colorNonGrayscale"

(* ---------------------------------------------------------------------- *)
(* SpecName: the file name as GetPixels reads it (lines 175-207). A name   *)
(* is a sequence of characters; "png", "by" and "jpg" stand for their      *)
(* letters, "a" for any letter but x. mArgs.name is the name, mRes what    *)
(* the parse returns.                                                      *)
(* ---------------------------------------------------------------------- *)
MaxSpecLen == 4     \* characters of the padding part of a name

Digits == {"0", "1", "3"}

DigitVal(c) == IF c = "0" THEN 0 ELSE IF c = "1" THEN 1 ELSE 3

\* strings.Count for a separator of one character
Count(s, c) == Cardinality({i \in DOMAIN s : s[i] = c})

\* strings.Split for a separator of one character
RECURSIVE SplitFrom(_, _, _, _, _)
SplitFrom(s, sep, i, cur, acc) ==
    IF i > Len(s) THEN Append(acc, cur)
    ELSE IF s[i] = sep THEN SplitFrom(s, sep, i + 1, <<>>, Append(acc, cur))
    ELSE SplitFrom(s, sep, i + 1, Append(cur, s[i]), acc)

Split(s, sep) == SplitFrom(s, sep, 1, <<>>, <<>>)

\* slices.Reverse
Reverse(s) == [i \in 1..Len(s) |-> s[Len(s) + 1 - i]]

RECURSIVE DecimalValue(_)
DecimalValue(s) ==
    IF s = <<>> THEN 0
    ELSE 10 * DecimalValue(SubSeq(s, 1, Len(s) - 1)) + DigitVal(s[Len(s)])

AllDigits(s) == s # <<>> /\ \A i \in DOMAIN s : s[i] \in Digits

\* strconv.Atoi: an optional sign, then one digit or more
Atoi(s) ==
    LET signed == s # <<>> /\ s[1] \in {"+", "-"}
        digits == IF signed THEN Tail(s) ELSE s
    IN  IF ~AllDigits(digits) THEN [ok |-> FALSE, num |-> 0]
        ELSE [ok |-> TRUE,
              num |-> IF signed /\ s[1] = "-" THEN -DecimalValue(digits)
                      ELSE DecimalValue(digits)]

\* isValidPadding on the text of a field (model_create_canvas.go, lines 127-142)
isValidPaddingText(s) ==
    IF Len(s) < 1 THEN "NotAWholeNumberError"
    ELSE IF ~Atoi(s).ok THEN "NotAPositiveNumberError"
    ELSE IF Atoi(s).num < 0 THEN "NotAPositiveNumberError"
    ELSE "nil"

\* lines 22-26
InvalidFileNameError == decodeError("Invalid file name.")

\* fmt.Errorf("Padding is an invalid value: %w", NotAPositiveNumberError)
PaddingValueError == [err |-> "Padding is an invalid value"]

\* GetPixels, lines 175-207
parseFileName(name) ==
    LET fileNameInfo == Reverse(Split(name, "."))
        paddingSpecSplit == Split(fileNameInfo[3], "x")
    IN  IF Count(name, ".") < 3 THEN InvalidFileNameError
        ELSE IF fileNameInfo[1] # <<"png">> THEN InvalidFileNameError
        ELSE IF fileNameInfo[2] # <<"by">> THEN InvalidFileNameError
        ELSE IF Count(fileNameInfo[3], "x") # 1 THEN InvalidFileNameError
        ELSE IF \/ isValidPaddingText(paddingSpecSplit[1]) # "nil"
                \/ isValidPaddingText(paddingSpecSplit[2]) # "nil"
        THEN PaddingValueError
        ELSE [err |-> "nil", paddingX |-> Atoi(paddingSpecSplit[1]).num,
              paddingY |-> Atoi(paddingSpecSplit[2]).num]

\* the names tried: what precedes the padding part, the padding part, and
\* what follows it
NameHeads == {<<>>, <<"a", ".">>, <<"a", ".", "a", ".">>}
NameTails == {<<".", "by", ".", "png">>, <<".", "png">>, <<".", "by", ".", "jpg">>, <<>>}
PaddingParts == UNION {[1..n -> Digits \cup {"x", "+", "-", "a"}] : n \in 0..MaxSpecLen}
Names == {head \o part \o tail : head \in NameHeads, part \in PaddingParts, tail \in NameTails}

InitName ==
    /\ FileIdle /\ ModelIdle /\ ToggleIdle /\ CreateIdle /\ ImportIdle
    /\ mArgs \in [name : Names]
    /\ mRes = Pending

\* the poll or the constructor reads the name of a file that opens
ParseName ==
    /\ mRes = Pending
    /\ mRes' = parseFileName(mArgs.name)
    /\ UNCHANGED <<mArgs, fileVars, modelVars, toggleVars, createVars, importVars>>

NextName == ParseName

SpecName == InitName /\ [][NextName]_vars

\* the name has the form the claim describes: last segment png, the one
\* before it by, and the one before that two unsigned decimal numbers with
\* one x between them
WellFormedName(name) ==
    LET segs == Split(name, ".")
        n == Len(segs)
    IN  /\ n >= 3
        /\ segs[n] = <<"png">> /\ segs[n - 1] = <<"by">>
        /\ Count(segs[n - 2], "x") = 1
        /\ AllDigits(Split(segs[n - 2], "x")[1])
        /\ AllDigits(Split(segs[n - 2], "x")[2])

NamePaddings(name) ==
    LET segs == Split(name, ".")
        parts == Split(segs[Len(segs) - 2], "x")
    IN  <<DecimalValue(parts[1]), DecimalValue(parts[2])>>

\* C26 as stated: a file name is accepted, giving (paddingX, paddingY),
\* exactly when, split on ".", its last segment is png, its second-to-last
\* is by, and its third-to-last is two unsigned non-negative decimal integers
\* with exactly one x between them; every other name is rejected with the
\* filename-format error.
C26_NameAcceptedExactlyWhen ==
    mRes # Pending =>
        IF WellFormedName(mArgs.name)
        THEN /\ mRes.err = "nil"
             /\ <<mRes.paddingX, mRes.paddingY>> = NamePaddings(mArgs.name)
        ELSE mRes = InvalidFileNameError

\* What holds: a name that is accepted gives the paddings strconv.Atoi reads;
\* a well-formed name with a segment before the padding part is accepted;
\* art.3x1.by.png gives (3,1).
AcceptedNameGivesPaddings ==
    mRes # Pending =>
        /\ (WellFormedName(mArgs.name) /\ Count(mArgs.name, ".") >= 3) =>
              /\ mRes.err = "nil"
              /\ <<mRes.paddingX, mRes.paddingY>> = NamePaddings(mArgs.name)
        /\ mArgs.name = <<"a", ".", "3", "x", "1", ".", "by", ".", "png">> =>
              (mRes.err = "nil" /\ mRes.paddingX = 3 /\ mRes.paddingY = 1)
        /\ mRes.err = "nil" => (mRes.paddingX >= 0 /\ mRes.paddingY >= 0)

(* ---------------------------------------------------------------------- *)
(* Claims on what Update does with a poll's result (Spec)                  *)
(* ---------------------------------------------------------------------- *)
\* the preview's Update takes an updatePreviewMsg in this step
PollResultHandled == Running /\ upd.pc = "idle" /\ msgs # <<>> /\ msgs' = Tail(msgs)

\* Update returns from the resize mode's measurement (lines 617-621) before
\* it looks at the message
MeasureFailsInResizeMode ==
    /\ preview.rOpts.resizing
    /\ measureFile(file, preview.paddingX, preview.paddingY).err # "nil"

\* C27 as stated: a failed read during a poll never terminates the view or
\* the program: after a poll whose read failed, the preview model is still
\* the active model and the next poll tick is scheduled.
C27_FailedReadRetried ==
    [][(PollResultHandled /\ Head(msgs).err.err # "nil") =>
          (active' = "preview" /\ ~quit' /\ tick'.pc = "timer")]_vars

\* What holds: a poll's result without an error, or with an error that is
\* not a decodeError, leaves the preview active, and outside the resize mode
\* the next tick is scheduled.
OtherErrorsRetried ==
    [][(PollResultHandled /\ Head(msgs).err.err # "decodeError") =>
          /\ active' = "preview" /\ ~quit'
          /\ ~MeasureFailsInResizeMode => tick'.pc = "timer"]_vars

\* C28 as stated: when a poll result carries a decode error, the preview
\* model is replaced by the panic-message model, the quit command is issued
\* and no further poll is scheduled; a poll result with any other error keeps
\* the preview model active.
C28_DecodeErrorEndsView ==
    [][PollResultHandled =>
          IF Head(msgs).err.err = "decodeError"
          THEN active' = "panic" /\ quit' /\ tick'.pc # "timer"
          ELSE active' = "preview" /\ ~quit']_vars

\* What holds: the same, for a result handled outside the resize mode or
\* while the file measures.
DecodeErrorEndsViewOutsideResize ==
    [][(PollResultHandled /\ ~MeasureFailsInResizeMode) =>
          IF Head(msgs).err.err = "decodeError"
          THEN active' = "panic" /\ quit' /\ tick'.pc # "timer"
          ELSE active' = "preview" /\ ~quit' /\ tick'.pc = "timer"]_vars

(* ---------------------------------------------------------------------- *)
(* SpecShade: shadeType on one sample. mArgs.c is the sample, mRes.shade   *)
(* the class returned.                                                     *)
(* ---------------------------------------------------------------------- *)
\* channel values: the ends of the range and the values around each
\* threshold of shadeType
ChannelValues == {0, 1, 23, 24, 25, 84, 85, 86, 127, 128, 170, 255}

InitShade ==
    /\ FileIdle /\ ModelIdle /\ ToggleIdle /\ CreateIdle /\ ImportIdle
    /\ mArgs \in [c : ChannelValues \X ChannelValues \X ChannelValues \X ChannelValues]
    /\ mRes = Pending

\* shadeType(color.NRGBA{R, G, B, A})
Classify ==
    /\ mRes = Pending
    /\ mRes' = [err |-> "nil", shade |-> shadeType(mArgs.c)]
    /\ UNCHANGED <<mArgs, fileVars, modelVars, toggleVars, createVars, importVars>>

NextShade == Classify

SpecShade == InitShade /\ [][NextShade]_vars

\* the values shadeType computes on the way, in uint32
ShadeTerms(c) ==
    LET hi == Max2(c[1], Max2(c[2], c[3]))
        lo == Min2(c[1], Min2(c[2], c[3]))
    IN  <<3 * c[4], hi - lo, 2 * (hi - lo), 16 * (2 * (hi - lo)), c[1] + c[2] + c[3], 2 * c[4]>>

\* C29: for every sample with 8-bit non-premultiplied channels shadeType
\* returns transparent if 3*A < 255; else non-grayscale if
\* 16 * (2 * (max(R,G,B) - min(R,G,B))) > 3*255; else shaded if R+G+B < 2*A;
\* else unshaded. No value it computes leaves the range of uint32, and one
\* class is returned for every sample.
C29_ShadeClasses ==
    mRes # Pending =>
        LET R == mArgs.c[1]
            G == mArgs.c[2]
            B == mArgs.c[3]
            A == mArgs.c[4]
            hi == IF R >= G /\ R >= B THEN R ELSE IF G >= B THEN G ELSE B
            lo == IF R <= G /\ R <= B THEN R ELSE IF G <= B THEN G ELSE B
        IN  /\ mRes.shade \in {"colorTransparent", "colorNonGrayscale", "colorShaded",
                               "colorNonShaded"}
            /\ mRes.shade = "colorTransparent" <=> 3 * A < 255
            /\ mRes.shade = "colorNonGrayscale" <=>
                   (3 * A >= 255 /\ 16 * (2 * (hi - lo)) > 3 * 255)
            /\ mRes.shade = "colorShaded" <=>
                   (3 * A >= 255 /\ 16 * (2 * (hi - lo)) <= 3 * 255 /\ R + G + B < 2 * A)
            /\ mRes.shade = "colorNonShaded" <=>
                   (3 * A >= 255 /\ 16 * (2 * (hi - lo)) <= 3 * 255 /\ R + G + B >= 2 * A)
            /\ \A i \in 1..Len(ShadeTerms(mArgs.c)) :
                   ShadeTerms(mArgs.c)[i] >= 0 /\ ShadeTerms(mArgs.c)[i] <= 2147483647

\* a translucent sample on the edge of two thresholds has been classified
\* shaded: A = 85 is the least alpha that is not transparent and a spread of
\* 23 the greatest that is grayscale
C29_Witness ==
    /\ mArgs.c = <<24, 1, 1, 85>>
    /\ mRes # Pending
    /\ mRes.shade = "colorShaded"

(* ---------------------------------------------------------------------- *)
(* SpecCodec: a dot mask is turned into its glyph where GetPixels does it  *)
(* (line 245) and the glyph back into the bits of its mask where the       *)
(* import form does it (part_001, lines 631-636). mArgs.b is the mask,     *)
(* mRes the glyph and then the bits read back.                             *)
(* ---------------------------------------------------------------------- *)
\* strconv.FormatUint(n, 2): the binary digits, the most significant first
RECURSIVE FormatUint2(_)
FormatUint2(n) ==
    IF n < 2 THEN <<IF n = 1 THEN "1" ELSE "0">>
    ELSE FormatUint2(n \div 2) \o <<IF n % 2 = 1 THEN "1" ELSE "0">>

\* zeros are put in front until there are BRAILLE_WIDTH*BRAILLE_HEIGHT digits
RECURSIVE PadBits(_)
PadBits(bits) ==
    IF Len(bits) >= BRAILLE_WIDTH * BRAILLE_HEIGHT THEN bits ELSE PadBits(<<"0">> \o bits)

\* mutant: the digits are not reversed
brailleBits_noReverse(charRune) == PadBits(FormatUint2(brailleReverseLookup(charRune)))

\* part_001, lines 631-636: brailleBits[i] is '1' when bit i of the mask is set
brailleBits(charRune) == Reverse(PadBits(FormatUint2(brailleReverseLookup(charRune))))

\* the mask whose bit i is brailleBits[i]
RECURSIVE MaskOfBits(_)
MaskOfBits(bits) ==
    IF bits = <<>> THEN 0
    ELSE (IF Head(bits) = "1" THEN 1 ELSE 0) + 2 * MaskOfBits(Tail(bits))

DotMasks == 0..(2 ^ (BRAILLE_WIDTH * BRAILLE_HEIGHT) - 1)

InitCodec ==
    /\ FileIdle /\ ModelIdle /\ ToggleIdle /\ CreateIdle /\ ImportIdle
    /\ mArgs \in [b : DotMasks]
    /\ mRes = Pending

\* pixels[charY][charX] = brailleLookup[brailleIdx] (line 245)
CellGlyph ==
    /\ mRes = Pending
    /\ mRes' = [err |-> "nil", glyph |-> brailleLookup(mArgs.b), bits |-> <<>>]
    /\ UNCHANGED <<mArgs, fileVars, modelVars, toggleVars, createVars, importVars>>

\* the import form reads the glyph back
CellBits ==
    /\ mRes # Pending /\ mRes.bits = <<>>
    /\ mRes' = [mRes EXCEPT !.bits = brailleBits(mRes.glyph)]
    /\ UNCHANGED <<mArgs, fileVars, modelVars, toggleVars, createVars, importVars>>

NextCodec == CellGlyph \/ CellBits

SpecCodec == InitCodec /\ [][NextCodec]_vars

\* C30: the cell codec is a bijection on the braille block: a mask b in
\* 0..255 mapped to its glyph through brailleLookup and back through
\* brailleReverseLookup gives b, the glyph lies in U+2800..U+28FF, and every
\* glyph of the block is the image of exactly one mask
C30_CodecBijection ==
    mRes # Pending =>
        /\ mRes.glyph \in 10240..10495
        /\ brailleReverseLookup(mRes.glyph) = mArgs.b
        /\ mRes.bits # <<>> => MaskOfBits(mRes.bits) = mArgs.b
        /\ {b \in DotMasks : brailleLookup(b) = mRes.glyph} = {mArgs.b}
        /\ Cardinality({b \in DotMasks : brailleLookup(b) = 10240 + mArgs.b}) = 1

\* the mask with the dots of the right column only has gone to its glyph and back
C30_Witness ==
    /\ mArgs.b = 2 + 8 + 32 + 128
    /\ mRes # Pending /\ mRes.bits # <<>>
    /\ mRes.glyph = 10240 + 8 + 16 + 32 + 128

(* ---------------------------------------------------------------------- *)
(* Claims on one toggle (SpecToggle)                                       *)
(* ---------------------------------------------------------------------- *)
\* the rewritten raster f1 measures as the opposite mode of f0 with the cell
\* counts of f0 and the raster size of the opposite layout
ToggleFlipped(f0, f1, name) ==
    LET m0 == measureFile(f0, name.paddingX, name.paddingY)
        m1 == measureFile(f1, name.paddingX, name.paddingY)
    IN  /\ m1.err = "nil"
        /\ m1.isUnpadded = ~m0.isUnpadded
        /\ <<m1.charsX, m1.charsY>> = <<m0.charsX, m0.charsY>>
        /\ <<f1.w, f1.h>> =
              IF m0.isUnpadded
              THEN <<m0.charsX * (BRAILLE_WIDTH + name.paddingX),
                     m0.charsY * (BRAILLE_HEIGHT + name.paddingY)>>
              ELSE <<BRAILLE_WIDTH * m0.charsX + 1, BRAILLE_HEIGHT * m0.charsY + 1>>

\* C31 as stated: after a successful toggle of a canvas that measured as mode
\* M with (cx, cy) cells, measuring the rewritten raster with the same
\* padding spec reports the opposite mode and the same cell counts, with the
\* raster size of the opposite layout.
C31_ToggleFlipsMode == tCount = 1 => ToggleFlipped(tOrig, file, fileName)

\* The flip does hold whenever the unpadded raster of the grid does not also
\* pass the padded test of the padding spec.
ToggleFlipsModeUnambiguous ==
    (tCount = 1 /\ ~Ambiguous(tOrig, fileName)) => ToggleFlipped(tOrig, file, fileName)

\* the dot samples of f1 laid out with cells of afterW x afterH pixels are
\* the dot samples of f0 under its measurement m0, sample for sample
SamplesCopied(f0, f1, m0, afterW, afterH) ==
    \A charX \in 0..(m0.charsX - 1), charY \in 0..(m0.charsY - 1),
       brailleXOff \in 0..(BRAILLE_WIDTH - 1), brailleYOff \in 0..(BRAILLE_HEIGHT - 1) :
        LET afterX == charX * afterW + brailleXOff
            afterY == charY * afterH + brailleYOff
        IN  /\ afterX < f1.w /\ afterY < f1.h
            /\ At(ImageOf(f1), afterX, afterY)
                 = At(ImageOf(f0), charX * m0.brailleW + brailleXOff,
                                   charY * m0.brailleH + brailleYOff)

\* C32: a successful toggle copies the 8 dot samples of every cell unchanged
\* into the new raster: same RGBA value, same offset inside the cell, cell
\* (i,j) to cell (i,j) of the layout it writes; no dot sample is recoloured,
\* non-grayscale comment samples included.
C32_ToggleCopiesSamples ==
    tCount = 1 =>
        LET m0 == measureFile(tOrig, fileName.paddingX, fileName.paddingY)
        IN  SamplesCopied(tOrig, file, m0,
                IF m0.isUnpadded THEN BRAILLE_WIDTH + fileName.paddingX ELSE BRAILLE_WIDTH,
                IF m0.isUnpadded THEN BRAILLE_HEIGHT + fileName.paddingY ELSE BRAILLE_HEIGHT)

\* a padded canvas of several cells, with gaps on both axes and a cell that
\* holds shaded and comment samples, has been toggled once
C32_Witness ==
    /\ tCount = 1
    /\ fileName.paddingX > 0 /\ fileName.paddingY > 0
    /\ LET m == measureFile(tOrig, fileName.paddingX, fileName.paddingY)
       IN  /\ ~m.isUnpadded /\ m.charsX > 1 /\ m.charsY > 1
           /\ \E i \in 0..7 : CellClasses(ImageOf(tOrig), m, 1, 1)[i] = "colorShaded"
           /\ \E i \in 0..7 : CellClasses(ImageOf(tOrig), m, 1, 1)[i] = "colorNonGrayscale"

(* ---------------------------------------------------------------------- *)
(* Claims on the raster a resize writes (SpecResizeMode)                   *)
(* ---------------------------------------------------------------------- *)
\* Update has just handled enter in the resize mode, and resizeCanvas wrote
\* a new raster
ResizeWritten ==
    /\ tCount' = tCount + 1
    /\ hist'[Len(hist')].err = "nil"
    /\ hist'[Len(hist')].resizeX # 0 \/ hist'[Len(hist')].resizeY # 0

\* the raster new, written for old measured as m and resized by (dx, dy):
\* the cells both grids have keep their pixels, the other cells hold the
\* default pattern when an axis grew, the guard row and column are transparent
ResizedFrom(old, new, m, paddingX, paddingY, dx, dy) ==
    LET keptX == Min2(m.charsX, m.charsX + dx)
        keptY == Min2(m.charsY, m.charsY + dy)
        guard == IF m.isUnpadded THEN 1 ELSE 0
        default == newCanvasImage(new.w, new.h, paddingX, paddingY, m.isUnpadded)
        cellPx(charX, charY) ==
            {<<charX * m.brailleW + xOff, charY * m.brailleH + yOff>> :
                xOff \in 0..(m.brailleW - 1), yOff \in 0..(m.brailleH - 1)}
    IN  /\ new.w = (m.charsX + dx) * m.brailleW + guard
        /\ new.h = (m.charsY + dy) * m.brailleH + guard
        /\ \A charX \in 0..(m.charsX + dx - 1), charY \in 0..(m.charsY + dy - 1) :
              IF charX < keptX /\ charY < keptY
              THEN \A p \in cellPx(charX, charY) : new.px[p] = old.px[p]
              ELSE (dx > 0 \/ dy > 0) =>
                     /\ \A p \in cellPx(charX, charY) : new.px[p] = default.px[p]
                     /\ brailleLookup(brailleIdxAt(new, m, charX, charY)) = BlankGlyph
        /\ m.isUnpadded =>
              \A p \in Coords(new.w, new.h) :
                 (p[1] = new.w - 1 \/ p[2] = new.h - 1) => new.px[p] = colorTransparentPx

\* C33: after a successful resize from (cx,cy) to (cx+dx, cy+dy) cells, every
\* cell (i,j) with i < min(cx, cx+dx) and j < min(cy, cy+dy) holds exactly the
\* pixels it held before, at the same cell coordinates; when dx > 0 or dy > 0
\* every other cell holds the default checkerboard pattern and decodes to the
\* all-dots-clear glyph; in unpadded mode the guard row and column of the new
\* raster are transparent.
C33_ResizeAnchored ==
    [][ResizeWritten =>
          ResizedFrom(ImageOf(file), ImageOf(file'),
                      measureFile(file, preview.paddingX, preview.paddingY),
                      preview.paddingX, preview.paddingY,
                      hist'[Len(hist')].resizeX, hist'[Len(hist')].resizeY)]_vars

\* a canvas of 1x2 cells has been resized to 2x1 cells: one axis grew while
\* the other shrank
C33_Witness ==
    \E i \in 1..Len(hist) :
        /\ hist[i].err = "nil"
        /\ hist[i].charsX = 1 /\ hist[i].resizeX = 1
        /\ hist[i].charsY = 2 /\ hist[i].resizeY = -1
        /\ hist[i].after = <<2, 1>>

(* ---------------------------------------------------------------------- *)
(* Claims on the poll loop and the keys of the preview (Spec)              *)
(* ---------------------------------------------------------------------- *)
\* C34 as stated: polling never stops while the preview model is active: in
\* every mode, and also when measuring the file fails, handling a poll result
\* that leaves the preview active schedules the next poll tick.
C34_PollingNeverStops ==
    [][(PollResultHandled /\ active' = "preview") => tick'.pc = "timer"]_vars

\* What holds: the next tick is scheduled unless the result is handled in the
\* resize mode while the file does not measure.
PollingContinuesWhileMeasurable ==
    [][(PollResultHandled /\ active' = "preview" /\ ~MeasureFailsInResizeMode)
          => tick'.pc = "timer"]_vars

(* ---------------------------------------------------------------------- *)
(* Claims on the grid a clean leaves (SpecClean)                           *)
(* ---------------------------------------------------------------------- *)
\* the file the i-th logged clean was called on
CleanedFile(i) == IF i = 1 THEN tOrig ELSE hist[i - 1].file

\* C35: a successful clean, with or without comment removal, never changes
\* the decoded glyph grid: the raster it writes measures, and the grid
\* decoded from it equals the grid decoded before the clean.
C35_CleanKeepsGrid ==
    \A i \in 1..Len(hist) :
        hist[i].err = "nil" =>
            /\ measureFile(hist[i].file, fileName.paddingX, fileName.paddingY)
                 = measureFile(CleanedFile(i), fileName.paddingX, fileName.paddingY)
            /\ GridOf(hist[i].file, fileName) = GridOf(CleanedFile(i), fileName)

\* a clean rewrote samples of a canvas whose grid has a glyph with raised
\* dots and a cell with a comment sample
C35_Witness ==
    /\ FirstCleanDone /\ hist[1].file # tOrig
    /\ \E charY \in 1..Len(GridOf(tOrig, fileName)) :
         \E charX \in 1..Len(GridOf(tOrig, fileName)[charY]) :
            /\ GridOf(tOrig, fileName)[charY][charX] # BlankGlyph
            /\ \E i \in 0..7 : CellClasses(ImageOf(tOrig), CleanMeasure, charX - 1, charY - 1)[i]
                                  = "colorNonGrayscale"

(* ---------------------------------------------------------------------- *)
(* Claim on the cell counts of a measurement (SpecMeasure)                 *)
(* ---------------------------------------------------------------------- *)
\* C36 as stated: whenever measurement succeeds for a raster of at least 1x1
\* pixels, it reports at least one cell on each axis.
C36_MeasuredCellsPositive ==
    mRes.err = "nil" => (mRes.charsX >= 1 /\ mRes.charsY >= 1)

\* What holds: a measurement of a raster of more than one pixel on each axis
\* reports at least one cell on each axis.
MeasuredCellsPositiveAboveOnePixel ==
    (mRes.err = "nil" /\ mArgs.w > 1 /\ mArgs.h > 1) => (mRes.charsX >= 1 /\ mRes.charsY >= 1)

(* ---------------------------------------------------------------------- *)
(* SpecNamed: the preview opened on a path whose name GetPixels parses     *)
(* (lines 175-207), one Update after the other as in SpecResizeMode, each  *)
(* write-operation run to its end. fileName holds the characters of the    *)
(* name. The padding fields of the model are written by GetPixels only,    *)
(* and only once the name has passed every test.                           *)
(* ---------------------------------------------------------------------- *)
GoodName == <<"a", ".", "1", "x", "0", ".", "by", ".", "png">>
NegativeName == <<"a", ".", "-", "1", "x", "0", ".", "by", ".", "png">>
EmptyPadName == <<"a", ".", "x", "0", ".", "by", ".", "png">>
ShortName == <<"1", "x", "0", ".", "by", ".", "png">>

\* GetPixels on the model pv (lines 166-252), the name parsed as written
GetPixelsNamed(f, name, pv) ==
    LET keep == [pixels |-> <<>>, paddingX |-> pv.paddingX, paddingY |-> pv.paddingY,
                 unpadded |-> pv.unpadded]
        parsed == parseFileName(name)
    IN  IF f.kind = "missing"
        THEN keep @@ [err |-> decodeError("FileDoesNotExistError")]
        ELSE IF parsed.err # "nil"
        THEN keep @@ [err |-> parsed]
        ELSE LET pixelData == GetPixels(f, [paddingX |-> parsed.paddingX,
                                           paddingY |-> parsed.paddingY])
             IN  [pixelData EXCEPT !.unpadded =
                      IF measureFile(f, parsed.paddingX, parsed.paddingY).err = "nil"
                      THEN @ ELSE pv.unpadded]

\* canvases drawn for the padding spec (1,0) of GoodName
NamedFiles ==
    {PngFile(Canvas(u, 1, 0, 2, 1, 1)) : u \in BOOLEAN}
    \cup {PngFile(Canvas(FALSE, 1, 0, 1, 1, 1))}

\* newPreviewArtModel (lines 113-134) and Init (lines 143-148)
InitNamed ==
    /\ MeasureIdle /\ CreateIdle /\ ImportIdle
    /\ fileName \in [name : {GoodName, NegativeName, EmptyPadName, ShortName}]
    /\ file \in NamedFiles
    /\ modAge = 0
    /\ active = "preview"
    /\ quit = FALSE
    /\ writeSignal = <<>>
    /\ LET zero == [paddingX |-> 0, paddingY |-> 0, unpadded |-> FALSE]
           pixelData == GetPixelsNamed(file, fileName.name, zero)
       IN  preview = [processError |-> nil, updateViewError |-> pixelData.err,
                      paddingX |-> pixelData.paddingX, paddingY |-> pixelData.paddingY,
                      pixels |-> pixelData.pixels, unpadded |-> pixelData.unpadded,
                      notifMessage |-> "", rOpts |-> NoResize]
    /\ upd = IdleUpd
    /\ tick = [IdleTick EXCEPT !.pc = "open"]
    /\ msgs = <<>>
    /\ tOrig = file
    /\ tCount = 0
    /\ hist = <<>>

\* the scheduled poll reads the file (lines 150-159)
NamedPoll ==
    /\ Running /\ tick.pc \in {"open", "timer"}
    /\ LET pixelData == GetPixelsNamed(file, fileName.name, preview)
       IN  /\ msgs' = Append(msgs, [err |-> pixelData.err, pixels |-> pixelData.pixels])
           /\ preview' = [preview EXCEPT !.paddingX = pixelData.paddingX,
                                         !.paddingY = pixelData.paddingY,
                                         !.unpadded = pixelData.unpadded]
    /\ tick' = [tick EXCEPT !.pc = "none"]
    /\ UNCHANGED <<file, modAge, active, quit, tCount, hist>>
    /\ ModeFrame

\* keys t, c and C outside the modes (lines 712-760), the write-operation
\* included
NamedKey ==
    /\ Running /\ ~preview.rOpts.resizing /\ tCount < MaxConfirms
    /\ IF preview.processError.err # "nil"
       THEN UNCHANGED <<file, modAge, active, preview, tCount>>
       ELSE \E k \in {"t", "c", "C"} :
              LET call == IF k = "t"
                          THEN togglePaddingState(file, modAge, preview.paddingX,
                                                  preview.paddingY)
                          ELSE cleanCanvas(file, modAge, preview.paddingX,
                                           preview.paddingY, k = "C")
                  h == handleResult(preview,
                                    WriteOp(IF k = "t" THEN "toggle" ELSE "clean", 0, 0, k = "C"),
                                    call.err)
              IN  /\ file' = call.file
                  /\ modAge' = IF call.err.err \in {"nil", "encodeError"} THEN 0 ELSE modAge
                  /\ preview' = h.preview
                  /\ active' = h.active
                  /\ tCount' = tCount + 1
    /\ UNCHANGED <<quit, tick, msgs, hist>>
    /\ ModeFrame

NextNamed ==
    \/ ModeOpen \/ ModeEsc \/ ModeKey \/ ModeEnter \/ NamedPoll \/ ModeUpdatePoll
    \/ ModePanic \/ NamedKey \/ Wait

SpecNamed == InitNamed /\ [][NextNamed]_vars

\* the padding segment of the name fails validation: the poll reports an
\* error that is not a decodeError
BadPaddingName == parseFileName(fileName.name) = PaddingValueError

\* C37 as stated: toggle, clean and resize are only ever run with the padding
\* spec parsed from the current file's name: if the padding segment of the
\* name failed validation, no key press makes a write-operation modify the
\* file.
C37_NoWriteOnInvalidPadding == BadPaddingName => file = tOrig

\* What holds: when the name parses, a write-operation that modifies the file
\* is run with the padding spec of the name.
ParsedNameWritesUseItsPadding ==
    [][(file' # file /\ parseFileName(fileName.name).err = "nil") =>
          /\ preview.paddingX = parseFileName(fileName.name).paddingX
          /\ preview.paddingY = parseFileName(fileName.name).paddingY]_vars

(* ---------------------------------------------------------------------- *)
(* Claim on an export of an empty grid (SpecExport)                        *)
(* ---------------------------------------------------------------------- *)
\* C38 as stated: export never crashes the program: also when the preview
\* holds an empty glyph grid and the user confirms an export to a path that
\* does not exist, exportBraille returns an error or writes a file; it never
\* indexes a row of an empty grid.
C38_ExportNeverCrashes == ~exp.crashed

\* What holds: exportBraille indexes past the end of the grid only when the
\* grid has no row.
ExportCrashesOnlyOnEmptyGrid == exp.crashed => imp.grid = <<>>

(* ---------------------------------------------------------------------- *)
(* Claim on a failed import (SpecImport)                                   *)
(* ---------------------------------------------------------------------- *)
\* the import form's createFile has returned an error
ImportCreateFailed == imp.createErr \notin {"pending", "nil"}

\* C39 as stated: a failed import leaves no file behind: if writing the
\* raster for an imported grid returns an error, no file exists at the
\* destination path afterwards, so repeating the import is not refused with
\* 'File already exists'.
C39_FailedImportLeavesNoFile ==
    ImportCreateFailed =>
        /\ file = MissingFile
        /\ importCreateFile(imp.res.pixels, file, fileName.paddingX, fileName.paddingY).err
             # "File already exists."

\* What holds: the path holds a raster after a successful import, and an
\* empty file after a failed one.
ImportLeavesRasterOrEmptyFile ==
    /\ (imp.createErr = "nil") => file.kind = "png"
    /\ ImportCreateFailed => file = EmptyFile

====
